---- MODULE Spec2Model ----
(***************************************************************************)
(* Message lifecycle and dispatch engine of open311-messages               *)
(* (src/lib/message.js, second schema revision, lines 612-1646).           *)
(*                                                                         *)
(* A Message document lives in memory (docs) and, once saved, in the       *)
(* record store (store).  send(), queue() and process() are asynchronous:  *)
(* every store, transport and queue callback is a step of its own, so      *)
(* calls on different documents interleave.                                *)
(***************************************************************************)
EXTENDS Naturals, Sequences, FiniteSets, TLC

VARIABLES docs, store, calls, jobs, events, faults, batches, model

vars == <<docs, store, calls, jobs, events, faults, batches, model>>

\* ------------------------------------------------------------------ bounds
\* number of operations started: constructions of a Message by a caller and
\* calls of send(), queue() and process()
MaxOps == 4
\* number of times the store or the queue backend answers with an I/O error
MaxFaults == 1

\* ------------------------------------------------------- schema constants
DIRECTION_OUTBOUND == "Outbound"
DIRECTION_INBOUND == "Inbound"
DIRECTIONS == {DIRECTION_INBOUND, DIRECTION_OUTBOUND}

TYPE_SMS == "SMS"
TYPE_EMAIL == "EMAIL"
TYPE_PUSH == "PUSH"
TYPES == {TYPE_EMAIL, TYPE_SMS, TYPE_PUSH}

MIME_TEXT == "text/plain"
MIME_HTML == "text/html"
MIMES == {MIME_TEXT, MIME_HTML}

PRIORITY_LOW == "low"
PRIORITY_NORMAL == "normal"
PRIORITY_MEDIUM == "medium"
PRIORITY_HIGH == "high"
PRIORITY_CRITICAL == "critical"
PRIORITIES ==
  {PRIORITY_LOW, PRIORITY_NORMAL, PRIORITY_MEDIUM, PRIORITY_HIGH, PRIORITY_CRITICAL}

SEND_MODE_PULL == "Pull"
SEND_MODE_PUSH == "Push"
SEND_MODES == {SEND_MODE_PUSH, SEND_MODE_PULL}

STATE_RECEIVED == "Received"
STATE_UNKNOWN == "Unknown"
STATE_SENT == "Sent"
STATE_QUEUED == "Queued"
STATE_DELIVERED == "Delivered"
STATES ==
  {STATE_RECEIVED, STATE_UNKNOWN, STATE_SENT, STATE_QUEUED, STATE_DELIVERED}

\* the fields the hash is taken over, in order
HASH_FIELDS ==
  <<"type", "direction", "from", "to", "transport", "queueName", "body", "priority">>

\* defaults merged into the options of queue()
DefaultAttempts == 3
DefaultBackoff == "exponential"

\* ------------------------------------------------------------------ values
\* An absent string field is "".

\* a date: absent, or the instant new Date() gave to the k-th call on document d
NoDate == <<>>

\* a list-valued path (to, cc, bcc): absent, a single string, or an array
NoList == [kind |-> "none", v |-> <<>>]
Str(s) == [kind |-> "str", v |-> <<s>>]
Arr(seq) == [kind |-> "arr", v |-> seq]

\* a transport result, or an error (Mixed `result`, callback errors, payloads)
NoResult ==
  [tag |-> "none", isError |-> FALSE, code |-> "", message |-> "",
   status |-> 0, state |-> "", stack |-> ""]
NoError == NoResult

\* an instance of Error, as raised by the store, the queue, require or a transport
ErrorOf(code, message) ==
  [tag |-> "error", isError |-> TRUE, code |-> code, message |-> message,
   status |-> 500, state |-> "", stack |-> "at ..."]

\* a plain object given as the error by a transport
PlainError(message) ==
  [tag |-> "error", isError |-> FALSE, code |-> "", message |-> message,
   status |-> 0, state |-> "", stack |-> ""]

\* a success payload of a transport, with or without a state
Success(state) ==
  [tag |-> "success", isError |-> FALSE, code |-> "", message |-> "success",
   status |-> 0, state |-> state, stack |-> ""]

\* the hash of a record: absent, supplied by the caller, or computed
NoHash ==
  [supplied |-> "", type |-> "", direction |-> "", from |-> "", to |-> <<>>,
   transport |-> "", queueName |-> "", body |-> "", priority |-> ""]
SuppliedHash(h) == [NoHash EXCEPT !.supplied = h]

\* the paths of the schema, i.e. what the store keeps and toObject() returns
SchemaPaths ==
  {"_id", "type", "mime", "direction", "state", "mode", "from", "to", "cc", "bcc",
   "subject", "body", "sentAt", "failedAt", "result", "transport", "queueName",
   "priority", "options", "hash"}

\* what a document carries besides its paths
DocOnly == {"isNew", "modified", "response", "origin"}

\* ------------------------------------------------------------- transports
\* echo: the sample transport, with a worker queue, always succeeding.
\* gateway: a poll transport without event sink; it answers with a state or
\* rejects with a plain object.  gatewayq: a transport with an event sink; it
\* succeeds without a state or fails with an Error.
Transports == {"echo", "gateway", "gatewayq"}

\* require(this.transport) in _send: throws unless the module exists
ResolvableAlways(t) == TRUE
Resolvable(t) == t \in Transports

\* transport._queue in _send
HasSink(t) == t \in {"echo", "gatewayq"}

\* what transport.send may pass to its callback
TransportOutcomes(t) ==
  CASE t = "echo" -> {[error |-> NoError, result |-> Success("")]}
    [] t = "gateway" ->
         {[error |-> NoError, result |-> Success(STATE_QUEUED)],
          [error |-> PlainError("rejected"), result |-> NoResult]}
    [] t = "gatewayq" ->
         {[error |-> NoError, result |-> Success("")],
          [error |-> ErrorOf("ECONNREFUSED", "refused"), result |-> NoResult]}
    [] OTHER -> {}

AllOutcomes == UNION {TransportOutcomes(t) : t \in Transports}

\* is-html on the body
IsHtml(body) == body \in {"<p>hi</p>"}

\* String.prototype.toLowerCase on a message type
ToLower(s) ==
  CASE s = TYPE_EMAIL -> "email"
    [] s = TYPE_SMS -> "sms"
    [] s = TYPE_PUSH -> "push"
    [] OTHER -> s

\* ------------------------------------------------- documents and the schema
\* the details a caller hands to `new Message(details)`; "" / NoList / NoHash
\* stand for a key the caller left out
NoDetails ==
  [type |-> "", mime |-> "", direction |-> "", state |-> "", mode |-> "",
   from |-> "", to |-> NoList, cc |-> NoList, bcc |-> NoList, subject |-> "",
   body |-> "", transport |-> "", queueName |-> "", priority |-> "",
   options |-> "", hash |-> NoHash]

\* the messages callers construct
Details ==
  << \* an urgent e-mail through a transport that has an event sink
     [NoDetails EXCEPT !.from = "a@x.com", !.to = Str("b@x.com"), !.body = "hi",
                       !.transport = "gatewayq", !.priority = PRIORITY_HIGH,
                       !.subject = "s"],
     \* a message for a poll transport that already carries a state
     [NoDetails EXCEPT !.from = "a@x.com", !.to = Str("c@x.com"), !.body = "<p>hi</p>",
                       !.transport = "gateway", !.mode = SEND_MODE_PULL,
                       !.state = STATE_SENT, !.type = TYPE_SMS,
                       !.queueName = "texts"],
     \* no body: fails validation
     [NoDetails EXCEPT !.from = "a@x.com", !.to = Str("d@x.com"),
                       !.transport = "echo"],
     \* a transport that is no module
     [NoDetails EXCEPT !.from = "a@x.com", !.to = Str("e@x.com"), !.body = "hi",
                       !.transport = "missing"] >>

\* which of the details a document was made from
DetailsOf(doc) == CHOOSE i \in 1..Len(Details) : Details[i].to.v = doc.to.v

Default(v, dflt) == IF v = "" THEN dflt ELSE v

\* new Message(details): the schema defaults, a fresh _id, nothing persisted
Construct(details, id) ==
  [_id |-> id, isNew |-> TRUE, modified |-> {}, origin |-> "new",
   type |-> Default(details.type, TYPE_EMAIL),
   mime |-> Default(details.mime, MIME_TEXT),
   direction |-> Default(details.direction, DIRECTION_OUTBOUND),
   state |-> Default(details.state, STATE_UNKNOWN),
   mode |-> Default(details.mode, SEND_MODE_PUSH),
   from |-> details.from, to |-> details.to, cc |-> details.cc, bcc |-> details.bcc,
   subject |-> details.subject, body |-> details.body,
   sentAt |-> NoDate, failedAt |-> NoDate, result |-> NoResult,
   transport |-> details.transport, queueName |-> details.queueName,
   priority |-> Default(details.priority, PRIORITY_NORMAL),
   options |-> details.options, hash |-> details.hash,
   response |-> NoResult]

\* the one element of a singleton: a value computed once
Only(S) == CHOOSE x \in S : TRUE

\* an assignment to a path of a document; the path becomes modified when the
\* value changes
Assign(doc, path, value) ==
  IF doc[path] = value
    THEN doc
    ELSE [doc EXCEPT ![path] = value, !.modified = @ \cup {path}]

\* a hash that leaves the priority out
ComputeHashWithoutPriority(doc) ==
  [supplied |-> "", type |-> doc.type, direction |-> doc.direction,
   from |-> doc.from, to |-> doc.to.v, transport |-> doc.transport,
   queueName |-> doc.queueName, body |-> doc.body, priority |-> ""]

\* hash(_.pick(this, HASH_FIELDS))
ComputeHash(doc) ==
  [supplied |-> "", type |-> doc.type, direction |-> doc.direction,
   from |-> doc.from, to |-> doc.to.v, transport |-> doc.transport,
   queueName |-> doc.queueName, body |-> doc.body, priority |-> doc.priority]

\* [].concat(value) for a path given as a single string
ToArray(list) == IF list.kind = "str" THEN Arr(list.v) ELSE list

\* ensure `to`, `cc`, `bcc` field is in array format
ensureArray(doc, path) == Assign(doc, path, ToArray(doc[path]))

\* a hook that derives the queue name whether or not one was supplied
ensureQueueNameAlways(doc) == Assign(doc, "queueName", ToLower(doc.type))

\* ensure message `queue` name
ensureQueueName(doc) ==
  IF doc.queueName = "" THEN Assign(doc, "queueName", ToLower(doc.type)) ELSE doc

\* a hook that computes the hash on every validation
ensureHashAlways(doc) == Assign(doc, "hash", ComputeHash(doc))

\* ensure message hash if not set by a transport
ensureHash(doc) ==
  IF doc.hash = NoHash THEN Assign(doc, "hash", ComputeHash(doc)) ELSE doc

\* set mime type
setMime(doc) ==
  IF doc.mime = "" /\ IsHtml(doc.body)
    THEN Assign(doc, "mime", MIME_HTML)
    ELSE Assign(doc, "mime", MIME_TEXT)

\* the pre('validate') hook
preValidate(doc) ==
  Only({setMime(hashed) : hashed \in
    {ensureHash(named) : named \in
      {ensureQueueName(listed) : listed \in
        {ensureArray(ensureArray(ensureArray(doc, "to"), "cc"), "bcc")}}}})

\* a schema that requires no path: the enums alone
ValidEnumsOnly(doc) ==
  /\ doc.type \in TYPES
  /\ doc.mime \in MIMES
  /\ doc.direction \in DIRECTIONS
  /\ doc.state \in STATES
  /\ doc.mode \in SEND_MODES
  /\ doc.priority \in PRIORITIES

\* the validators of the schema: required paths and enums
Valid(doc) ==
  /\ doc.from # ""
  /\ doc.to.kind = "arr" /\ Len(doc.to.v) > 0
  /\ doc.body # ""
  /\ doc.queueName # ""
  /\ doc.hash # NoHash
  /\ doc.type \in TYPES
  /\ doc.mime \in MIMES
  /\ doc.direction \in DIRECTIONS
  /\ doc.state \in STATES
  /\ doc.mode \in SEND_MODES
  /\ doc.priority \in PRIORITIES

\* message.toObject(): the paths of the document
toObject(doc) == [p \in SchemaPaths |-> doc[p]]

\* a document loaded from the store
Hydrate(rec) ==
  [p \in SchemaPaths \cup DocOnly |->
     IF p \in SchemaPaths THEN rec[p]
     ELSE IF p = "isNew" THEN FALSE
     ELSE IF p = "modified" THEN {}
     ELSE IF p = "origin" THEN "found"
     ELSE NoResult]

\* a store without the unique index
DuplicateNever(doc) == FALSE

\* the unique index on hash
Duplicate(doc) == \E id \in DOMAIN store : store[id].hash = doc.hash

\* the answer of save: the error for the callback, the document and the store
\* afterwards
Saved(error, doc, st) == [error |-> error, doc |-> doc, store |-> st]

\* a save that writes the whole document over the stored record
PersistWhole(v, io) ==
  IF ~Valid(v)
    THEN Saved(ErrorOf("ValidationError", "validation failed"), v, store)
  ELSE IF io = "fail"
    THEN Saved(ErrorOf("MongoError", "store unavailable"), v, store)
  ELSE IF v.isNew /\ Duplicate(v)
    THEN Saved(ErrorOf("E11000", "duplicate key"), v, store)
  ELSE Saved(NoError, [v EXCEPT !.isNew = FALSE, !.modified = {}],
             (v._id :> toObject(v)) @@ store)

\* the insert of a new document or the update of the modified paths of a stored
\* one, for a document v that went through the hook
Persist(v, io) ==
  IF ~Valid(v)
    THEN Saved(ErrorOf("ValidationError", "validation failed"), v, store)
  ELSE IF io = "fail"
    THEN Saved(ErrorOf("MongoError", "store unavailable"), v, store)
  ELSE IF v.isNew
    THEN IF Duplicate(v)
           THEN Saved(ErrorOf("E11000", "duplicate key"), v, store)
           ELSE Saved(NoError, [v EXCEPT !.isNew = FALSE, !.modified = {}],
                      (v._id :> toObject(v)) @@ store)
  ELSE Saved(NoError, [v EXCEPT !.modified = {}],
             [store EXCEPT ![v._id] =
                [p \in SchemaPaths |-> IF p \in v.modified THEN v[p] ELSE @[p]]])

\* document.save(): the hook, the validators, then the store.  io is what the
\* store answers.
Save(doc, io) == Only({Persist(v, io) : v \in {preValidate(doc)}})

StoreAnswers == {"ok", "fail"}

\* the backend answers io; its failures are counted
Answer(io) ==
  /\ io = "fail" => faults < MaxFaults
  /\ faults' = IF io = "fail" THEN faults + 1 ELSE faults

\* ----------------------------------------------------------------- factory
\* the options a caller may give to the factory: none, fake: true, fake: false
NoFactoryOptions == [fake |-> ""]
FactoryOptions == {[fake |-> f] : f \in {"", "true", "false"}}

\* Math.ceil(Math.random() * 99999)
Uuids == {101, 202}

\* _.merge({}, { fake: false }, options)
mergeFactoryOptions(options) ==
  [fake |-> IF options.fake = "" THEN "false" ELSE options.fake]

\* mongoose before any model is registered under the name Message.  compiled is
\* the factory call that compiled the model, _queue the call that created its
\* queue (0: undefined), returned what each factory call handed back.
NoModel ==
  [registered |-> FALSE, compiled |-> 0, _uuid |-> 0, _queue |-> 0,
   options |-> NoFactoryOptions, returned |-> <<>>]

\* the catch block of the factory: the statics _uuid and _queue are set and the
\* model is compiled, in the k-th call of the factory
compile(m, k, uuid, fake) ==
  [m EXCEPT !.registered = TRUE, !.compiled = k, !._uuid = uuid,
            !._queue = IF fake = "true" THEN 0 ELSE k]

\* a factory that compiles the model on every call
ensureModelCompiles(m, k, uuid, fake) == compile(m, k, uuid, fake)

\* ensure singletons: mongoose.model(modelName) answers once the model exists
ensureModel(m, k, uuid, fake) ==
  IF m.registered THEN m ELSE compile(m, k, uuid, fake)

\* module.exports(options): the model it returns, noted in returned
factory(m, options, uuid) ==
  LET merged == mergeFactoryOptions(options)
      made == ensureModel(m, Len(m.returned) + 1, uuid, merged.fake)
      out == [made EXCEPT !.options = merged]
  IN  [out EXCEPT !.returned =
         Append(@, [model |-> out.compiled, _uuid |-> out._uuid,
                    _queue |-> out._queue])]

\* the model of a program that called the factory without options when it
\* started; returned lists the calls made since
Loaded == [factory(NoModel, NoFactoryOptions, 101) EXCEPT !.returned = <<>>]

\* Message._queue is defined
HasModelQueue == model._queue # 0

\* Message._queue.emit or Message._queue.create on an undefined queue
QueueUndefined == ErrorOf("TypeError", "cannot read property of undefined")

\* ------------------------------------------------------------------- calls
\* calls[d] lists the send(), queue() and process() calls made on document d, the
\* last of them possibly still running: where it stands and what it has done.
NoRecord == toObject(Construct(NoDetails, 0))

NewCall(kind, fake) ==
  [kind |-> kind, fake |-> fake, pc |-> "start",
   \* queue(): the options given and merged, the job created
   options |-> [attempts |-> 0, backoff |-> ""], attempts |-> 0, backoff |-> "",
   job |-> 0,
   \* the resend() or requeue() that made the call, if any
   batch |-> 0,
   \* _send: require was called, the transport has a sink, the number of times
   \* transport.send was invoked, the error and the result it reported
   required |-> FALSE, sink |-> FALSE, invoked |-> 0,
   reported |-> NoError, got |-> NoResult,
   \* save: its error, whether it succeeded, whether it inserted the record
   saveError |-> NoError, saved |-> FALSE, inserted |-> FALSE,
   \* done(error, message) as the caller saw it
   cbCalled |-> FALSE, cbError |-> NoError, cbDoc |-> 0,
   \* what a callback of the call threw
   thrown |-> NoError,
   \* the document when the call began, the document and the stored record when
   \* its save (or, without a save, the call) ended
   before |-> NoRecord, after |-> NoRecord, stored |-> NoRecord]

\* the record kept under id in store st, if any
StoredRec(st, id) == IF id \in DOMAIN st THEN st[id] ELSE NoRecord

\* the call with the document and the stored record noted
Noted(call, doc, st) ==
  [call EXCEPT !.after = toObject(doc), !.stored = StoredRec(st, doc._id)]

Docs == 1..Len(docs)
CallsOf(d) == 1..Len(calls[d])
Last(d) == calls[d][Len(calls[d])]

\* a call is still running on document d
Busy(d) == calls[d] # <<>> /\ Last(d).pc # "done"

\* the call running on document d stands at pc
At(d, pc) == calls[d] # <<>> /\ Last(d).pc = pc

\* the calls started so far, and their number
AllCalls == UNION {{<<d, k>> : k \in CallsOf(d)} : d \in Docs}
Started == Cardinality(AllCalls)

\* the last call on document d replaced by call
WithLast(d, call) == [calls EXCEPT ![d][Len(calls[d])] = call]

Event(name, d, err, payload) ==
  [name |-> name, doc |-> d, k |-> Len(calls[d]), error |-> err, payload |-> payload]

\* new Date() in the k-th call on document d: a call reads the clock at most
\* once, and no two calls read the same instant
Now(d, k) == <<d, k>>

SetMax(S) == CHOOSE x \in S : \A y \in S : y <= x
Range(seq) == {seq[i] : i \in 1..Len(seq)}

\* the documents made by new Message(details), and the ids given out so far
Constructed == {d \in Docs : docs[d].origin = "new"}
NextId == 1 + SetMax({docs[d]._id : d \in Constructed} \cup DOMAIN store \cup {0})

\* the operations started so far: constructions, calls of send, queue and
\* process (those resend() and requeue() make included), calls of statics and
\* calls of the factory
Ops == Cardinality(Constructed) + Started + Len(batches) + Len(model.returned)

\* -------------------------------------------------------------------- send
\* the error branch of the transport callback in _send: `error instanceof Error`
NormalizeError(error) ==
  IF error.isError
    THEN [error EXCEPT !.isError = FALSE, !.stack = "", !.state = ""]
    ELSE error

\* a failure branch that keeps the error as the transport gave it
sendFailedAsGiven(doc, error, now) ==
  Assign(Assign(doc, "failedAt", now), "result", error)

\* update last send fail details
sendFailed(doc, error, now) ==
  Assign(Assign(doc, "failedAt", now), "result", NormalizeError(error))

\* a send that ignores the state of the result
StateOfDelivered(result) == STATE_DELIVERED

\* _.get(result, 'state', STATE_DELIVERED)
StateOf(result) == IF result.state # "" THEN result.state ELSE STATE_DELIVERED

\* a successful send that forgets sentAt
sendSucceededNoSentAt(doc, result, now) ==
  Assign(Assign(doc, "state", StateOf(result)), "result", result)

\* a successful send that clears the failure of an earlier send
sendSucceededClearsFailedAt(doc, result, now) ==
  Assign(Assign(Assign(Assign(doc, "sentAt", now), "state", StateOf(result)),
                "result", result), "failedAt", NoDate)

\* update success details
sendSucceeded(doc, result, now) ==
  Assign(Assign(Assign(doc, "sentAt", now), "state", StateOf(result)),
         "result", result)

\* a fake send that forgets sentAt
sendFakeNoSentAt(doc, now) == [doc EXCEPT !.response = Success("")]

\* send fake message: sentAt and the fake message result
sendFake(doc, now) ==
  [Assign(doc, "sentAt", now) EXCEPT !.response = Success("")]

\* what _send hands to done after the save: next(error, _message) of update
SendCallbackError(saveError, reported) == saveError

\* an update() that emits message:sent:success whatever save answered
EmitsSentSuccessWithSink(saveError, sink, reported) == sink

\* `if (!error && queue)` before emitting message:sent:success
EmitsSentSuccess(saveError, sink, reported) == saveError = NoError /\ sink

\* job completion by the worker queue: done(error) of a processed job counts an
\* attempt, and the job is retried while attempts remain
JobDone(job, error) ==
  IF error = NoError
    THEN [job EXCEPT !.status = "complete"]
    ELSE [job EXCEPT !.made = @ + 1,
                     !.status = IF job.made + 1 < job.attempts
                                  THEN "inactive" ELSE "failed",
                     !.error = error]

\* the jobs after a call has called done(error): only process() holds a job
JobsAfter(call, error) ==
  IF call.kind = "process"
    THEN [jobs EXCEPT ![call.job] = JobDone(@, error)]
    ELSE jobs

\* async.parallel in resend(): the callback of resend is called with the first
\* error a send hands over, or else once every send has handed over its message
BatchesAfter(d, call, err) ==
  IF call.batch = 0 \/ batches[call.batch].cbCalled
    THEN batches
  ELSE IF err # NoError
    THEN [batches EXCEPT ![call.batch].cbCalled = TRUE,
                         ![call.batch].cbError = err,
                         ![call.batch].unfinished =
                            {x \in Range(batches[call.batch].children) \ {d} :
                               Busy(x)}]
  ELSE IF \A x \in Range(batches[call.batch].children) \ {d} : ~Busy(x)
    THEN [batches EXCEPT ![call.batch].cbCalled = TRUE]
  ELSE batches

\* _send up to the call of transport.send: require(this.transport) throws for
\* what is no module, and the catch hands the error to done
sendStart(call, doc) ==
  IF ~Resolvable(doc.transport)
    THEN [Noted(call, doc, store) EXCEPT
            !.pc = "done", !.required = TRUE, !.cbCalled = TRUE,
            !.cbError = ErrorOf("MODULE_NOT_FOUND", "cannot find module")]
    ELSE [call EXCEPT !.pc = "transport", !.required = TRUE, !.invoked = @ + 1,
                      !.sink = HasSink(doc.transport)]

\* message.send(options, done) by a caller: the fake branch, or _send
Send(d, fake) ==
  /\ Ops < MaxOps
  /\ d \in Docs
  /\ docs[d].origin # "pending"
  /\ ~Busy(d)
  /\ LET call == [NewCall("send", fake) EXCEPT !.before = toObject(docs[d])]
     IN  IF fake
           THEN /\ docs' = [docs EXCEPT ![d] = sendFake(@, Now(d, Len(calls[d]) + 1))]
                /\ calls' = [calls EXCEPT ![d] = Append(@, [call EXCEPT !.pc = "save"])]
           ELSE /\ calls' = [calls EXCEPT ![d] = Append(@, sendStart(call, docs[d]))]
                /\ UNCHANGED docs
  /\ UNCHANGED <<store, jobs, events, faults, batches, model>>

\* the callback the transport invokes, followed by the start of update()
TransportCb(d, out) ==
  /\ d \in Docs
  /\ At(d, "transport")
  /\ out \in TransportOutcomes(docs[d].transport)
  /\ docs' = [docs EXCEPT ![d] =
                IF out.error # NoError
                  THEN sendFailed(@, out.error, Now(d, Len(calls[d])))
                  ELSE sendSucceeded(@, out.result, Now(d, Len(calls[d])))]
  /\ events' = IF out.error # NoError /\ Last(d).sink
                 THEN Append(events,
                        Event("message:sent:error", d, NormalizeError(out.error),
                              NoRecord))
                 ELSE events
  /\ calls' = WithLast(d, [Last(d) EXCEPT !.pc = "save",
                                          !.reported = NormalizeError(out.error),
                                          !.got = out.result])
  /\ UNCHANGED <<store, jobs, faults, batches, model>>

\* update() of _send, and the save callback of a fake send, given the answer r
\* of save: the success event, then done(error, message)
sendSaved(d, call, r, err) ==
  /\ docs' = [docs EXCEPT ![d] = r.doc]
  /\ store' = r.store
  /\ events' = IF ~call.fake /\ EmitsSentSuccess(r.error, call.sink, call.reported)
                 THEN Append(events,
                        Event("message:sent:success", d, NoError, toObject(r.doc)))
                 ELSE events
  /\ calls' = WithLast(d, [Noted(call, r.doc, r.store) EXCEPT
                             !.pc = "done", !.cbCalled = TRUE,
                             !.saveError = r.error,
                             !.saved = (r.error = NoError),
                             !.inserted = (r.error = NoError /\ docs[d].isNew),
                             !.cbError = err,
                             !.cbDoc = IF r.error = NoError THEN d ELSE 0])
  /\ jobs' = JobsAfter(call, err)
  /\ batches' = BatchesAfter(d, call, err)

\* the error done receives: that of save, through _send unless the send is fake
doneError(call, saveError) ==
  IF call.fake THEN saveError ELSE SendCallbackError(saveError, call.reported)

sendSavedWith(d, call, r) == sendSaved(d, call, r, doneError(call, r.error))

\* the callback of message.save in send (fake) and in update() of _send
SendSaveCb(d, io) ==
  /\ d \in Docs
  /\ At(d, "save")
  /\ Last(d).kind \in {"send", "process"}
  /\ Answer(io)
  /\ \E r \in {Save(docs[d], io)} : sendSavedWith(d, Last(d), r)
  /\ UNCHANGED model

\* ------------------------------------------------------------------- queue
\* the options a caller may give to queue(): none, or its own retry policy
QueueOptions == {[attempts |-> 0, backoff |-> ""], [attempts |-> 2, backoff |-> "fixed"]}

\* a merge in which the defaults win over the caller's options
mergeOptionsDefaults(options) ==
  [attempts |-> DefaultAttempts, backoff |-> DefaultBackoff]

\* _.merge({}, {attempts: 3, backoff: 'exponential'}, options)
mergeOptions(options) ==
  [attempts |-> IF options.attempts = 0 THEN DefaultAttempts ELSE options.attempts,
   backoff |-> IF options.backoff = "" THEN DefaultBackoff ELSE options.backoff]

\* a queue() that leaves the state of a poll message alone
queueStateKept(doc) == doc

\* a queue() that marks a push message as Queued
queueStateQueued(doc) ==
  IF doc.mode = SEND_MODE_PULL
    THEN Assign(doc, "state", STATE_UNKNOWN)
    ELSE Assign(doc, "state", STATE_QUEUED)

\* ensure state to be unknown for poll transport
queueState(doc) ==
  IF doc.mode = SEND_MODE_PULL THEN Assign(doc, "state", STATE_UNKNOWN) ELSE doc

\* a save callback without the branch for poll transports
queueBranchAlwaysJob(error, message) ==
  IF error # NoError THEN "error" ELSE "push"

\* a save callback that does not look at the error
queueBranchIgnoresError(error, message) ==
  IF message.mode = SEND_MODE_PULL THEN "pull" ELSE "push"

\* which branch the save callback of queue() takes
queueBranch(error, message) ==
  IF error # NoError THEN "error"
  ELSE IF message.mode = SEND_MODE_PULL THEN "pull"
  ELSE "push"

\* Message._queue.create(message.queueName, message.toObject()) with priority,
\* attempts and backoff set; the job is not in the queue before job.save succeeds
createJob(message, options, d) ==
  [type |-> message.queueName, data |-> toObject(message),
   priority |-> message.priority, attempts |-> options.attempts,
   backoff |-> options.backoff, status |-> "unsaved", made |-> 0,
   error |-> NoError, doc |-> d, k |-> Len(calls[d])]

QueueAnswers == {"ok", "fail"}

\* message.queue(options)
Queue(d, options) ==
  /\ Ops < MaxOps
  /\ d \in Docs
  /\ docs[d].origin # "pending"
  /\ ~Busy(d)
  /\ LET merged == mergeOptions(options)
     IN  calls' = [calls EXCEPT ![d] =
                     Append(@, [NewCall("queue", FALSE) EXCEPT
                                  !.pc = "save", !.options = options,
                                  !.attempts = merged.attempts,
                                  !.backoff = merged.backoff,
                                  !.before = toObject(docs[d])])]
  /\ docs' = [docs EXCEPT ![d] = queueState(@)]
  /\ UNCHANGED <<store, jobs, events, faults, batches, model>>

\* the save callback of queue(), given the answer r of save and the branch taken.
\* Every branch begins with a use of Message._queue, which throws when the
\* queue is undefined.
queueSaved(d, call, r, branch) ==
  /\ docs' = [docs EXCEPT ![d] = r.doc]
  /\ store' = r.store
  /\ events' =
       CASE ~HasModelQueue -> events
         [] branch = "error" ->
              Append(events, Event("message:queue:error", d, r.error, NoRecord))
         [] branch = "pull" ->
              Append(events,
                Event("message:queue:success", d, NoError, toObject(r.doc)))
         [] OTHER -> events
  /\ jobs' = IF branch = "push" /\ HasModelQueue
               THEN Append(jobs, createJob(r.doc, call, d))
               ELSE jobs
  /\ calls' = WithLast(d, [Noted(call, r.doc, r.store) EXCEPT
                 !.saveError = r.error,
                 !.saved = (r.error = NoError),
                 !.inserted = (r.error = NoError /\ docs[d].isNew),
                 !.thrown = IF HasModelQueue THEN NoError ELSE QueueUndefined,
                 !.pc = IF branch = "push" /\ HasModelQueue
                          THEN "jobsave" ELSE "done",
                 !.job = IF branch = "push" /\ HasModelQueue
                           THEN Len(jobs) + 1 ELSE 0])

queueSavedWith(d, call, r) == queueSaved(d, call, r, queueBranch(r.error, r.doc))

\* the callback of this.save in queue()
QueueSaveCb(d, io) ==
  /\ d \in Docs
  /\ At(d, "save")
  /\ Last(d).kind = "queue"
  /\ Answer(io)
  /\ \E r \in {Save(docs[d], io)} : queueSavedWith(d, Last(d), r)
  /\ UNCHANGED <<batches, model>>

\* a job.save callback that does not look at the error
jobSaveEventSuccess(error) == "message:queue:success"

\* the event the callback of job.save emits
jobSaveEvent(error) ==
  IF error # NoError THEN "message:queue:error" ELSE "message:queue:success"

\* the callback of job.save in queue()
JobSaveCb(d, io) ==
  /\ d \in Docs
  /\ At(d, "jobsave")
  /\ Answer(io)
  /\ LET j == Last(d).job
         err == IF io = "ok" THEN NoError ELSE ErrorOf("RedisError", "queue unavailable")
     IN  /\ jobs' = [jobs EXCEPT ![j].status = IF io = "ok" THEN "inactive" ELSE "lost",
                                 ![j].error = err]
         /\ events' =
              Append(events,
                Event(jobSaveEvent(err), d, err,
                      IF jobSaveEvent(err) = "message:queue:error"
                        THEN NoRecord ELSE toObject(docs[d])))
         /\ calls' = WithLast(d, [Last(d) EXCEPT !.pc = "done"])
         /\ UNCHANGED <<docs, store, batches, model>>

\* ----------------------------------------------------------------- process
\* the queues a worker is registered on: _queue.process('email', Message.process)
WorkerQueues == {"email"}

\* the document process() is about to look up
Pending(id) == [Hydrate(NoRecord) EXCEPT !._id = id, !.origin = "pending"]

\* a process that reports a missing record as an error
sendMessageNotFoundFails == ErrorOf("NotFoundError", "message not found")

\* sendMessage without a message: next() hands no error to done
sendMessageNotFound == NoError

\* a sendMessage that passes over a record already sent
sendMessageSendsUnsent(st, id) == id \in DOMAIN st /\ st[id].sentAt = NoDate

\* `if (message)` in sendMessage: the record found is sent, whatever it holds
sendMessageSends(st, id) == id \in DOMAIN st

\* a worker takes a queued job and calls Message.process(job, done)
Process(j) ==
  /\ Ops < MaxOps
  /\ j \in 1..Len(jobs)
  /\ jobs[j].status = "inactive"
  /\ jobs[j].type \in WorkerQueues
  /\ jobs' = [jobs EXCEPT ![j].status = "active"]
  /\ docs' = Append(docs, Pending(jobs[j].data._id))
  /\ calls' = Append(calls,
                <<[NewCall("process", FALSE) EXCEPT !.pc = "find", !.job = j]>>)
  /\ UNCHANGED <<store, events, faults, batches, model>>

\* the callback of Message.findById(job.data._id) followed by sendMessage
ProcessFindCb(d, io) ==
  /\ d \in Docs
  /\ At(d, "find")
  /\ Answer(io)
  /\ LET j == Last(d).job
         id == jobs[j].data._id
     IN  IF io = "fail"
           THEN LET err == ErrorOf("MongoError", "store unavailable")
                IN  /\ calls' = WithLast(d, [Last(d) EXCEPT !.pc = "done",
                                                            !.cbCalled = TRUE,
                                                            !.cbError = err])
                    /\ jobs' = [jobs EXCEPT ![j] = JobDone(@, err)]
                    /\ UNCHANGED docs
         ELSE IF sendMessageSends(store, id)
           THEN LET doc == Hydrate(store[id])
                    call == sendStart([Last(d) EXCEPT !.before = store[id]], doc)
                IN  /\ docs' = [docs EXCEPT ![d] = doc]
                    /\ calls' = WithLast(d, call)
                    /\ jobs' = IF call.pc = "done"
                                 THEN [jobs EXCEPT ![j] = JobDone(@, call.cbError)]
                                 ELSE jobs
         ELSE /\ calls' = WithLast(d, [Last(d) EXCEPT !.pc = "done",
                                                      !.cbCalled = TRUE,
                                                      !.cbError = sendMessageNotFound])
              /\ jobs' = [jobs EXCEPT ![j] = JobDone(@, sendMessageNotFound)]
              /\ UNCHANGED docs
  /\ UNCHANGED <<store, events, batches, model>>

\* ------------------------------------------------------------ specification
Init ==
  /\ docs = <<>>
  /\ store = <<>>
  /\ calls = <<>>
  /\ jobs = <<>>
  /\ events = <<>>
  /\ faults = 0
  /\ batches = <<>>
  /\ model = Loaded

\* new Message(details).  Messages differ by their _id alone, so the caller's
\* constructions are taken in the order of Details.
New(i) ==
  /\ Ops < MaxOps
  /\ model.registered
  /\ \A d \in Constructed : DetailsOf(docs[d]) <= i
  /\ docs' = Append(docs, Construct(Details[i], NextId))
  /\ calls' = Append(calls, <<>>)
  /\ UNCHANGED <<store, jobs, events, faults, batches, model>>

Next ==
  \/ \E i \in 1..Len(Details) : New(i)
  \/ \E d \in Docs, fake \in BOOLEAN : Send(d, fake)
  \/ \E d \in Docs, out \in AllOutcomes : TransportCb(d, out)
  \/ \E d \in Docs, io \in StoreAnswers : SendSaveCb(d, io)
  \/ \E d \in Docs, options \in QueueOptions : Queue(d, options)
  \/ \E d \in Docs, io \in StoreAnswers : QueueSaveCb(d, io)
  \/ \E d \in Docs, io \in QueueAnswers : JobSaveCb(d, io)
  \/ \E j \in 1..Len(jobs) : Process(j)
  \/ \E d \in Docs, io \in StoreAnswers : ProcessFindCb(d, io)

Spec == Init /\ [][Next]_vars

\* the callbacks of the store and of the queue backend complete
FairSpec ==
  /\ Spec
  /\ WF_vars(\E d \in Docs, io \in StoreAnswers : QueueSaveCb(d, io))
  /\ WF_vars(\E d \in Docs, io \in QueueAnswers : JobSaveCb(d, io))

\* ----------------------------------------------------------------- statics
\* the criteria a caller gives to unsent, sent, resend and requeue: none, a
\* condition on sentAt (null, or {$ne: null}), a condition on type
NoCriteria == [sentAt |-> "", type |-> ""]
Criterias ==
  {NoCriteria,
   [sentAt |-> "$ne", type |-> ""],
   [sentAt |-> "null", type |-> ""],
   [sentAt |-> "", type |-> TYPE_EMAIL],
   [sentAt |-> "", type |-> TYPE_SMS]}

\* the condition on sentAt each static starts from
BaseSentAt(kind) == IF kind = "sent" THEN "$ne" ELSE "null"

\* _.merge({}, {sentAt: ...}, criteria): a path the criteria give takes the place
\* of the one merged before it
mergeCriteria(kind, criteria) ==
  [sentAt |-> IF criteria.sentAt # "" THEN criteria.sentAt ELSE BaseSentAt(kind),
   type |-> criteria.type]

\* a record satisfies the conditions of a query
Matches(rec, query) ==
  /\ query.sentAt = "null" => rec.sentAt = NoDate
  /\ query.sentAt = "$ne" => rec.sentAt # NoDate
  /\ query.type # "" => rec.type = query.type

\* the elements of a set of ids in ascending order
IdsSeq(S) ==
  [i \in 1..Cardinality(S) |->
     CHOOSE x \in S : Cardinality({y \in S : y < x}) = i - 1]

\* this.find(criteria): the ids of the records of st that satisfy the query
Find(st, query) == IdsSeq({id \in DOMAIN st : Matches(st[id], query)})

\* a call of unsent, sent, resend or requeue: its criteria, the query sent to the
\* store, what the lookup answered, the documents it loaded and, for the
\* statics that take one, the callback
NewBatch(kind, criteria) ==
  [kind |-> kind, criteria |-> criteria, query |-> mergeCriteria(kind, criteria),
   pc |-> "find", error |-> NoError,
   \* the store when the lookup answered, the ids and the records it returned
   seen |-> <<>>, found |-> <<>>, matched |-> <<>>,
   \* the documents loaded for the records found
   children |-> <<>>,
   \* done(error, ...), and the sends still running when it was called
   cbCalled |-> FALSE, cbError |-> NoError, unfinished |-> {},
   \* what the callback of the lookup threw
   thrown |-> NoError]

Batches == 1..Len(batches)

\* an event of a static: it belongs to no document
BatchEvent(name, b, err, payload) ==
  [name |-> name, doc |-> 0, k |-> b, error |-> err, payload |-> payload]

\* a behaviour follows one call of a static among the workers
CanStart == Ops < MaxOps /\ batches = <<>>

\* Message.unsent(criteria, done)
Unsent(criteria) ==
  /\ CanStart
  /\ batches' = Append(batches, NewBatch("unsent", criteria))
  /\ UNCHANGED <<docs, store, calls, jobs, events, faults, model>>

\* Message.sent(criteria, done)
Sent(criteria) ==
  /\ CanStart
  /\ batches' = Append(batches, NewBatch("sent", criteria))
  /\ UNCHANGED <<docs, store, calls, jobs, events, faults, model>>

\* Message.resend(criteria, done)
Resend(criteria) ==
  /\ CanStart
  /\ batches' = Append(batches, NewBatch("resend", criteria))
  /\ UNCHANGED <<docs, store, calls, jobs, events, faults, model>>

\* Message.requeue(criteria)
Requeue(criteria) ==
  /\ CanStart
  /\ batches' = Append(batches, NewBatch("requeue", criteria))
  /\ UNCHANGED <<docs, store, calls, jobs, events, faults, model>>

\* the batch after its lookup has failed
LookupFailed(batch, err) ==
  [batch EXCEPT !.pc = "done", !.error = err, !.seen = store]

\* the batch after its lookup has answered with the ids found
LookupAnswered(batch, found) ==
  [batch EXCEPT !.pc = "done", !.seen = store, !.found = found,
                !.matched = [i \in 1..Len(found) |-> store[found[i]]]]

\* the callback of this.find in unsent and sent: done(error, messages)
FindCb(b, io) ==
  /\ b \in Batches
  /\ batches[b].pc = "find"
  /\ batches[b].kind \in {"unsent", "sent"}
  /\ Answer(io)
  /\ batches' =
       [batches EXCEPT ![b] =
          IF io = "fail"
            THEN [LookupFailed(@, ErrorOf("MongoError", "store unavailable"))
                    EXCEPT !.cbCalled = TRUE,
                           !.cbError = ErrorOf("MongoError", "store unavailable")]
            ELSE [LookupAnswered(@, Find(store, @.query)) EXCEPT !.cbCalled = TRUE]]
  /\ UNCHANGED <<docs, store, calls, jobs, events, model>>

\* unsent.send(_next) for the i-th record found by resend b
resendCall(b, rec) ==
  sendStart([NewCall("send", FALSE) EXCEPT !.batch = b, !.before = rec],
            Hydrate(rec))

\* a resend that gives up at the first send that fails at once
resendSendsUntilError(b, batch) ==
  LET all == [i \in 1..Len(batch.found) |-> resendCall(b, batch.matched[i])]
      failed == {i \in 1..Len(all) : all[i].pc = "done"}
  IN  IF failed = {} THEN all
      ELSE SubSeq(all, 1, CHOOSE i \in failed : \A j \in failed : i <= j)

\* _.map(unsents, ...): one send for each record found, in the order found
resendSends(b, batch) ==
  [i \in 1..Len(batch.found) |-> resendCall(b, batch.matched[i])]

\* an async.parallel that waits for a task to call back
parallelCalledBackByTask(sends) == \E i \in 1..Len(sends) : sends[i].pc = "done"

\* async.parallel(tasks, next) has called next when it returns: there was no
\* task, or a task has handed over an error already
parallelCalledBack(sends) ==
  Len(sends) = 0 \/ \E i \in 1..Len(sends) : sends[i].pc = "done"

\* resendMessages: async.parallel over the sends of the records found.  A send
\* whose transport cannot be resolved hands its error over at once.
resendStarted(b, batch, sends) ==
  /\ docs' = docs \o [i \in 1..Len(sends) |-> Hydrate(batch.matched[i])]
  /\ calls' = calls \o [i \in 1..Len(sends) |-> <<sends[i]>>]
  /\ batches' =
       [batches EXCEPT ![b] =
          [batch EXCEPT
             !.children = [i \in 1..Len(sends) |-> Len(docs) + i],
             !.cbCalled = parallelCalledBack(sends),
             !.unfinished = IF \E i \in 1..Len(sends) : sends[i].pc = "done"
                              THEN {Len(docs) + i : i \in
                                      {j \in 1..Len(sends) : sends[j].pc # "done"}}
                              ELSE {},
             !.cbError =
                IF \E i \in 1..Len(sends) : sends[i].pc = "done"
                  THEN sends[CHOOSE i \in 1..Len(sends) :
                               /\ sends[i].pc = "done"
                               /\ \A j \in 1..(i - 1) : sends[j].pc # "done"].cbError
                  ELSE NoError]]

\* the callback of Message.unsent in resend, followed by resendMessages
ResendFindCb(b, io) ==
  /\ b \in Batches
  /\ batches[b].pc = "find"
  /\ batches[b].kind = "resend"
  /\ Answer(io)
  /\ IF io = "fail"
       THEN /\ batches' =
                 [batches EXCEPT ![b] =
                    [LookupFailed(@, ErrorOf("MongoError", "store unavailable"))
                       EXCEPT !.cbCalled = TRUE,
                              !.cbError = ErrorOf("MongoError", "store unavailable")]]
            /\ UNCHANGED <<docs, calls>>
       ELSE \E batch \in {LookupAnswered(batches[b], Find(store, batches[b].query))} :
              \E sends \in {resendSends(b, batch)} :
                resendStarted(b, batch, sends)
  /\ UNCHANGED <<store, jobs, events, model>>

\* queue() without options
NoOptions == [attempts |-> 0, backoff |-> ""]

\* unsent.queue() for a record found by requeue b, up to its call of save
requeueCall(b, rec) ==
  [NewCall("queue", FALSE) EXCEPT
     !.pc = "save", !.batch = b, !.before = rec,
     !.options = NoOptions,
     !.attempts = mergeOptions(NoOptions).attempts,
     !.backoff = mergeOptions(NoOptions).backoff]

\* a requeue that reports success whatever the lookup answered
requeueEventSuccess(error) == "message:requeue:success"

\* the event requeue emits once the lookup has answered
requeueEvent(error) ==
  IF error # NoError THEN "message:requeue:error" ELSE "message:requeue:success"

\* the records requeue queues again: all those the lookup returned
requeued(batch) == batch.matched

\* fire requeue success, then re-queue each unsent message
requeueStarted(b, batch, again) ==
  /\ events' = Append(events,
                 BatchEvent(requeueEvent(NoError), b, NoError, batch.matched))
  /\ docs' = docs \o [i \in 1..Len(again) |-> queueState(Hydrate(again[i]))]
  /\ calls' = calls \o [i \in 1..Len(again) |-> <<requeueCall(b, again[i])>>]
  /\ batches' =
       [batches EXCEPT ![b] =
          [batch EXCEPT !.children = [i \in 1..Len(again) |-> Len(docs) + i]]]

\* the callback of Message.unsent in requeue
RequeueFindCb(b, io) ==
  /\ b \in Batches
  /\ batches[b].pc = "find"
  /\ batches[b].kind = "requeue"
  /\ Answer(io)
  /\ IF ~HasModelQueue
       THEN \* Message._queue.emit throws before anything is queued again
            /\ batches' =
                 [batches EXCEPT ![b] =
                    [(IF io = "fail"
                        THEN LookupFailed(@, ErrorOf("MongoError", "store unavailable"))
                        ELSE LookupAnswered(@, Find(store, @.query)))
                       EXCEPT !.thrown = QueueUndefined]]
            /\ UNCHANGED <<docs, calls, events>>
     ELSE IF io = "fail"
       THEN /\ batches' =
                 [batches EXCEPT ![b] =
                    LookupFailed(@, ErrorOf("MongoError", "store unavailable"))]
            /\ events' =
                 Append(events,
                   BatchEvent(requeueEvent(ErrorOf("MongoError", "store unavailable")),
                              b, ErrorOf("MongoError", "store unavailable"), <<>>))
            /\ UNCHANGED <<docs, calls>>
       ELSE \E batch \in {LookupAnswered(batches[b], Find(store, batches[b].query))} :
              requeueStarted(b, batch, requeued(batch))
  /\ UNCHANGED <<store, jobs, model>>

\* the records and the jobs earlier runs have left: an unsent record whose
\* transport is no module, an unsent record with its job, a sent record
SeedRecord(i, id) == toObject(preValidate(Construct(Details[i], id)))

Seeds ==
  (1 :> SeedRecord(4, 1)) @@ (2 :> SeedRecord(1, 2)) @@
  (3 :> [SeedRecord(2, 3) EXCEPT !.sentAt = <<0, 1>>, !.state = STATE_DELIVERED,
                                 !.result = Success("")])

SeedJob(rec) ==
  [type |-> rec.queueName, data |-> rec, priority |-> rec.priority,
   attempts |-> DefaultAttempts, backoff |-> DefaultBackoff,
   status |-> "inactive", made |-> 0, error |-> NoError, doc |-> 0, k |-> 0]

SeedJobs == <<SeedJob(Seeds[2])>>

BatchInit ==
  /\ docs = <<>>
  /\ store = Seeds
  /\ calls = <<>>
  /\ jobs = SeedJobs
  /\ events = <<>>
  /\ faults = 0
  /\ batches = <<>>
  /\ model = Loaded

BatchNext ==
  \/ \E d \in Docs, out \in AllOutcomes : TransportCb(d, out)
  \/ \E d \in Docs, io \in StoreAnswers : SendSaveCb(d, io)
  \/ \E d \in Docs, io \in StoreAnswers : QueueSaveCb(d, io)
  \/ \E d \in Docs, io \in QueueAnswers : JobSaveCb(d, io)
  \/ \E j \in 1..Len(jobs) : Process(j)
  \/ \E d \in Docs, io \in StoreAnswers : ProcessFindCb(d, io)
  \/ \E criteria \in Criterias : Unsent(criteria)
  \/ \E criteria \in Criterias : Sent(criteria)
  \/ \E criteria \in Criterias : Resend(criteria)
  \/ \E criteria \in Criterias : Requeue(criteria)
  \/ \E b \in Batches, io \in StoreAnswers : FindCb(b, io)
  \/ \E b \in Batches, io \in StoreAnswers : ResendFindCb(b, io)
  \/ \E b \in Batches, io \in StoreAnswers : RequeueFindCb(b, io)

\* the statics of Message and the workers over a store and a queue that earlier
\* runs have filled
BatchSpec == BatchInit /\ [][BatchNext]_vars

\* the job of a record that has been removed since (Message.remove), next to
\* the job of a record that is still there
RemovedId == 99
StaleJobs == SeedJobs \o <<SeedJob([Seeds[2] EXCEPT !._id = RemovedId])>>

WorkerInit ==
  /\ docs = <<>>
  /\ store = Seeds
  /\ calls = <<>>
  /\ jobs = StaleJobs
  /\ events = <<>>
  /\ faults = 0
  /\ batches = <<>>
  /\ model = Loaded

WorkerNext ==
  \/ \E j \in 1..Len(jobs) : Process(j)
  \/ \E d \in Docs, io \in StoreAnswers : ProcessFindCb(d, io)
  \/ \E d \in Docs, out \in AllOutcomes : TransportCb(d, out)
  \/ \E d \in Docs, io \in StoreAnswers : SendSaveCb(d, io)

\* the workers over a queue that holds the job of a removed record
WorkerSpec == WorkerInit /\ [][WorkerNext]_vars

\* ------------------------------------------------------------------ create
\* the details callers create messages from: each required path given or left
\* out, `to` as a string or as an array, a plain or an HTML body, type,
\* queueName and mime given or left to the schema
Inputs ==
  {[NoDetails EXCEPT !.from = from, !.to = to, !.body = body, !.type = type,
                     !.queueName = queueName, !.mime = mime] :
     from \in {"", "a@x.com"},
     to \in {NoList, Str("b@x.com"), Arr(<<"b@x.com">>)},
     body \in {"", "hi", "<p>hi</p>"},
     type \in {"", TYPE_SMS},
     queueName \in {"", "texts"},
     mime \in {"", MIME_HTML}}

\* a second message beside one made from details: the same details, or the
\* details with another value for one key
Variants(details) ==
  {details,
   [details EXCEPT !.type = TYPE_PUSH],
   [details EXCEPT !.direction = DIRECTION_INBOUND],
   [details EXCEPT !.from = "z@x.com"],
   [details EXCEPT !.to = Arr(<<"c@x.com">>)],
   [details EXCEPT !.transport = "gateway"],
   [details EXCEPT !.queueName = "other"],
   [details EXCEPT !.body = "bye"],
   [details EXCEPT !.priority = PRIORITY_HIGH],
   [details EXCEPT !.cc = Str("c@x.com")],
   [details EXCEPT !.bcc = Arr(<<"d@x.com">>)],
   [details EXCEPT !.subject = "s"],
   [details EXCEPT !.options = "o"],
   [details EXCEPT !.mode = SEND_MODE_PULL],
   [details EXCEPT !.state = STATE_SENT],
   [details EXCEPT !.mime = MIME_TEXT],
   \* the same addresses as an array, the queue name the hook would derive
   [details EXCEPT !.to = IF @ = NoList THEN @ ELSE Arr(@.v)],
   [details EXCEPT !.queueName = ToLower(Default(details.type, TYPE_EMAIL))]}

\* two messages have been constructed, nothing is stored
CreateInit ==
  /\ \E a \in Inputs : \E b \in Variants(a) :
       docs = <<Construct(a, 1), Construct(b, 2)>>
  /\ store = <<>>
  /\ calls = <<<<>>, <<>>>>
  /\ jobs = <<>>
  /\ events = <<>>
  /\ faults = 0
  /\ batches = <<>>
  /\ model = Loaded

\* the save after its answer r: the document, the store and the callback
created(d, before, r) ==
  /\ docs' = [docs EXCEPT ![d] = r.doc]
  /\ store' = r.store
  /\ calls' = [calls EXCEPT ![d] =
                 Append(@, [Noted(NewCall("save", FALSE), r.doc, r.store) EXCEPT
                              !.pc = "done", !.before = before,
                              !.cbCalled = TRUE, !.cbError = r.error,
                              !.saveError = r.error,
                              !.saved = (r.error = NoError),
                              !.inserted = (r.error = NoError /\ docs[d].isNew),
                              !.cbDoc = IF r.error = NoError THEN d ELSE 0])]

\* message.save(done), as in Message.create(details, done)
Create(d, io) ==
  /\ Ops < MaxOps
  /\ d \in Docs
  /\ Answer(io)
  /\ \E r \in {Save(docs[d], io)} : created(d, toObject(docs[d]), r)
  /\ UNCHANGED <<jobs, events, batches, model>>

CreateNext == \E d \in Docs, io \in StoreAnswers : Create(d, io)

\* messages created from all kinds of details and saved
CreateSpec == CreateInit /\ [][CreateNext]_vars

\* ----------------------------------------------------------- factory calls
\* require('open311-messages')(options) by a caller
Factory(options, uuid) ==
  /\ Ops < MaxOps
  /\ model' = factory(model, options, uuid)
  /\ UNCHANGED <<docs, store, calls, jobs, events, faults, batches>>

\* a program from before its first call of the factory
FactoryInit ==
  /\ docs = <<>>
  /\ store = <<>>
  /\ calls = <<>>
  /\ jobs = <<>>
  /\ events = <<>>
  /\ faults = 0
  /\ batches = <<>>
  /\ model = NoModel

FactoryNext ==
  \/ \E options \in FactoryOptions, uuid \in Uuids : Factory(options, uuid)
  \/ \E i \in 1..Len(Details) : New(i)
  \/ \E d \in Docs, fake \in BOOLEAN : Send(d, fake)
  \/ \E d \in Docs, out \in AllOutcomes : TransportCb(d, out)
  \/ \E d \in Docs, io \in StoreAnswers : SendSaveCb(d, io)
  \/ \E d \in Docs, options \in QueueOptions : Queue(d, options)
  \/ \E d \in Docs, io \in StoreAnswers : QueueSaveCb(d, io)
  \/ \E d \in Docs, io \in QueueAnswers : JobSaveCb(d, io)
  \/ \E criteria \in Criterias : Requeue(criteria)
  \/ \E b \in Batches, io \in StoreAnswers : RequeueFindCb(b, io)

FactorySpec == FactoryInit /\ [][FactoryNext]_vars

\* -------------------------------------------------------- transport.queue
\* the echo transport: exports.name and exports.queueName
EchoName == "echo"
EchoQueueName == "email"

\* message.transport = exports.name; message.queueName = exports.queueName
echoAddress(doc) ==
  Assign(Assign(doc, "transport", EchoName), "queueName", EchoQueueName)

\* transport.queue(message) of the echo transport: the message is addressed to
\* the transport and its queue, then message.queue() is called
TransportQueue(d) ==
  /\ Ops < MaxOps
  /\ d \in Docs
  /\ docs[d].origin # "pending"
  /\ ~Busy(d)
  /\ calls' = [calls EXCEPT ![d] =
                 Append(@, [NewCall("queue", FALSE) EXCEPT
                              !.pc = "save", !.options = NoOptions,
                              !.attempts = mergeOptions(NoOptions).attempts,
                              !.backoff = mergeOptions(NoOptions).backoff,
                              !.before = toObject(docs[d])])]
  /\ docs' = [docs EXCEPT ![d] = queueState(echoAddress(@))]
  /\ UNCHANGED <<store, jobs, events, faults, batches, model>>

TransportQueueNext ==
  \/ \E i \in 1..Len(Details) : New(i)
  \/ \E d \in Docs, io \in StoreAnswers : Create(d, io)
  \/ \E d \in Docs : TransportQueue(d)
  \/ \E d \in Docs, io \in StoreAnswers : QueueSaveCb(d, io)
  \/ \E d \in Docs, io \in QueueAnswers : JobSaveCb(d, io)

\* messages created, saved and handed to the echo transport for queueing
TransportQueueSpec == Init /\ [][TransportQueueNext]_vars

\* ------------------------------------------------------------------ claims
CallAt(c) == calls[c[1]][c[2]]

\* real sends that reached the transport, fake sends, and queue() calls
RealSends ==
  {c \in AllCalls : /\ CallAt(c).kind \in {"send", "process"}
                    /\ ~CallAt(c).fake
                    /\ CallAt(c).invoked > 0}
FakeSends == {c \in AllCalls : CallAt(c).kind = "send" /\ CallAt(c).fake}
QueueCalls == {c \in AllCalls : CallAt(c).kind = "queue"}

Ended(c) == CallAt(c).pc = "done"

\* the events and the jobs of a call
EventsOf(c) == {i \in 1..Len(events) : events[i].doc = c[1] /\ events[i].k = c[2]}
JobsOf(c) == {j \in 1..Len(jobs) : jobs[j].doc = c[1] /\ jobs[j].k = c[2]}

\* C1: a send whose transport reports an error sets failedAt, does not set
\* sentAt, and hands a non-null error to the caller's callback.
C1_FailureReachesCallback ==
  \A c \in RealSends :
    (CallAt(c).kind = "send" /\ Ended(c) /\ CallAt(c).reported # NoError) =>
      /\ CallAt(c).after.failedAt # NoDate
      /\ CallAt(c).after.sentAt = CallAt(c).before.sentAt
      /\ CallAt(c).cbCalled
      /\ CallAt(c).cbError # NoError

\* C2: process(job) completes the job with the outcome of send: with an error
\* when the transport failed, without error when the send succeeded.
C2_JobGetsSendOutcome ==
  \A c \in RealSends :
    (CallAt(c).kind = "process" /\ Ended(c)) =>
      /\ CallAt(c).reported # NoError => CallAt(c).cbError # NoError
      /\ (CallAt(c).reported = NoError /\ CallAt(c).saved) =>
           CallAt(c).cbError = NoError

C4_FakeSendLeavesNoFailure ==
  \A c \in FakeSends :
    /\ ~CallAt(c).required /\ CallAt(c).invoked = 0
    /\ (Ended(c) /\ CallAt(c).saved) =>
         /\ CallAt(c).stored.sentAt # NoDate
         /\ CallAt(c).stored.failedAt = NoDate

\* C4 amended: a fake send never requires or invokes a transport and, when the
\* save succeeds, the stored record has sentAt set; failedAt is left as it was
\* (absent on a record that had not failed), whatever the transport field.
C4_FakeSendSetsSentAt ==
  \A c \in FakeSends :
    /\ ~CallAt(c).required /\ CallAt(c).invoked = 0
    /\ (Ended(c) /\ CallAt(c).saved) =>
         /\ CallAt(c).stored.sentAt # NoDate
         /\ CallAt(c).after.sentAt = CallAt(c).stored.sentAt
         /\ CallAt(c).after.failedAt = CallAt(c).before.failedAt
         /\ CallAt(c).inserted =>
              CallAt(c).stored.failedAt = CallAt(c).before.failedAt
         /\ CallAt(c).cbCalled /\ CallAt(c).cbError = NoError

C4_Witness ==
  \E c \in FakeSends :
    /\ Ended(c) /\ CallAt(c).saved
    /\ ~Resolvable(CallAt(c).stored.transport)
    /\ CallAt(c).stored.sentAt # NoDate
    /\ CallAt(c).stored.failedAt = NoDate

\* C5: after a successful fake send the result of the record, as persisted and
\* as returned, is a synthetic success payload.
C5_FakeSendStoresResult ==
  \A c \in FakeSends :
    (Ended(c) /\ CallAt(c).saved) =>
      /\ CallAt(c).stored.result = Success("")
      /\ CallAt(c).after.result = Success("")

\* queue() calls whose save has answered
Answered(c) == CallAt(c).pc \in {"jobsave", "done"}

\* C6 as stated: every queue() call on a Push record creates exactly one job and
\* a call on a Pull record none, so there are as many jobs as calls on Push
\* records.
C6_OneJobPerPushCall ==
  /\ \A c \in QueueCalls :
       (Answered(c) /\ CallAt(c).before.mode = SEND_MODE_PULL) => JobsOf(c) = {}
  /\ \A c \in QueueCalls :
       (Answered(c) /\ CallAt(c).before.mode = SEND_MODE_PUSH) =>
         Cardinality(JobsOf(c)) = 1
  /\ Len(jobs) =
       Cardinality({c \in QueueCalls :
                      Answered(c) /\ CallAt(c).before.mode = SEND_MODE_PUSH})

\* the queue() calls on Push records whose save succeeded
PushSaved ==
  {c \in QueueCalls : CallAt(c).saved /\ CallAt(c).before.mode = SEND_MODE_PUSH}

\* C6 amended: a queue() call on a Pull record creates no job; a call on a Push
\* record creates exactly one job when the record was persisted and none when
\* persisting failed, so there are as many jobs as persisted calls on Push
\* records.
C6_OneJobPerPersistedPushCall ==
  /\ \A c \in QueueCalls \ PushSaved : JobsOf(c) = {} /\ CallAt(c).job = 0
  /\ \A c \in PushSaved : JobsOf(c) = {CallAt(c).job}
  /\ Len(jobs) = Cardinality(PushSaved)

C6_Witness ==
  /\ Len(jobs) = 2
  /\ Cardinality(PushSaved) = 2
  /\ \A c \in QueueCalls : Ended(c)

\* C7: when the save in queue() fails, one message:queue:error event with the
\* error is emitted, no job is created and no message:queue:success is emitted
\* for the call.
C7_PersistFailureEmitsError ==
  \A c \in QueueCalls :
    CallAt(c).saveError # NoError =>
      /\ Ended(c)
      /\ CallAt(c).job = 0 /\ JobsOf(c) = {}
      /\ Cardinality(EventsOf(c)) = 1
      /\ \A i \in EventsOf(c) :
           /\ events[i].name = "message:queue:error"
           /\ events[i].error = CallAt(c).saveError

C7_Witness ==
  \E c \in QueueCalls :
    /\ CallAt(c).saveError.code = "E11000"
    /\ \E i \in EventsOf(c) : events[i].error.code = "E11000"

\* C8: queue() on a Pull record sets the state to Unknown whatever it was,
\* persists it, and on success emits message:queue:success with the persisted
\* record without creating a job.
C8_PullIsStoredUnknown ==
  \A c \in QueueCalls :
    (CallAt(c).before.mode = SEND_MODE_PULL /\ CallAt(c).saved) =>
      /\ Ended(c)
      /\ CallAt(c).stored.state = STATE_UNKNOWN
      /\ CallAt(c).after = CallAt(c).stored
      /\ CallAt(c).job = 0 /\ JobsOf(c) = {}
      /\ Cardinality(EventsOf(c)) = 1
      /\ \A i \in EventsOf(c) :
           /\ events[i].name = "message:queue:success"
           /\ events[i].payload = CallAt(c).stored

C8_Witness ==
  \E c \in QueueCalls :
    /\ CallAt(c).before.mode = SEND_MODE_PULL
    /\ CallAt(c).before.state = STATE_SENT
    /\ CallAt(c).saved
    /\ CallAt(c).stored.state = STATE_UNKNOWN

\* C9: the job of a Push record is created on the queue named by the record's
\* queueName, carries the persisted record with its id as payload, has the
\* record's priority, and has the attempts and the backoff of the options, 3 and
\* exponential when the options omit them.
C9_JobCarriesRecord ==
  \A j \in 1..Len(jobs) :
    LET c == <<jobs[j].doc, jobs[j].k>>
        call == CallAt(c)
    IN  /\ c \in PushSaved /\ call.job = j
        /\ jobs[j].data = call.after
        /\ jobs[j].data._id = docs[c[1]]._id
        /\ jobs[j].data._id \in DOMAIN store
        /\ call.inserted => jobs[j].data = call.stored
        /\ jobs[j].type = call.after.queueName
        /\ jobs[j].priority = call.after.priority
        /\ jobs[j].attempts =
             IF call.options.attempts = 0 THEN 3 ELSE call.options.attempts
        /\ jobs[j].backoff =
             IF call.options.backoff = "" THEN "exponential" ELSE call.options.backoff

C9_Witness ==
  \E j, k \in 1..Len(jobs) :
    /\ jobs[j].priority = PRIORITY_HIGH
    /\ jobs[j].attempts = 3 /\ jobs[j].backoff = "exponential"
    /\ jobs[k].attempts = 2 /\ jobs[k].backoff = "fixed"
    /\ jobs[j].status = "inactive"

\* the names of the events a queue() call has emitted
QueueEventsOf(c) ==
  {i \in EventsOf(c) :
     events[i].name \in {"message:queue:success", "message:queue:error"}}

\* a queue() call emits at most one event, and message:queue:success only once
\* the record is persisted and the job of a Push record is saved
QueueEventsInOrder ==
  \A c \in QueueCalls :
    /\ Cardinality(QueueEventsOf(c)) <= 1
    /\ Ended(c) => Cardinality(QueueEventsOf(c)) = 1
    /\ \A i \in QueueEventsOf(c) :
         events[i].name = "message:queue:success" =>
           /\ CallAt(c).saved
           /\ CallAt(c).stored._id = docs[c[1]]._id
           /\ CallAt(c).before.mode = SEND_MODE_PUSH =>
                /\ CallAt(c).job # 0
                /\ jobs[CallAt(c).job].status \notin {"unsaved", "lost"}

\* every queue() call started so far has ended with its one event
QueueCallsEmitted ==
  \A c \in QueueCalls : Ended(c) /\ Cardinality(QueueEventsOf(c)) = 1

\* C10: every queue() call whose store and queue callbacks complete ends having
\* emitted exactly one of message:queue:success and message:queue:error (again
\* and again all the calls started so far have), and message:queue:success only
\* after the record was persisted and the job of a Push record was saved.
C10_QueueEmitsExactlyOnce ==
  /\ []QueueEventsInOrder
  /\ []<>QueueCallsEmitted

C10_Witness ==
  \E c \in QueueCalls :
    /\ Ended(c)
    /\ CallAt(c).before.mode = SEND_MODE_PUSH
    /\ \E i \in QueueEventsOf(c) : events[i].name = "message:queue:success"
    /\ jobs[CallAt(c).job].status = "inactive"

\* the callbacks of the store and of the transport of a send complete
FairSendSpec ==
  /\ Spec
  /\ WF_vars(\E d \in Docs, io \in StoreAnswers : ProcessFindCb(d, io))
  /\ WF_vars(\E d \in Docs, out \in AllOutcomes : TransportCb(d, out))
  /\ WF_vars(\E d \in Docs, io \in StoreAnswers : SendSaveCb(d, io))

\* process() calls; those that found their record, whose transport succeeded
\* and whose save succeeded
ProcessCalls == {c \in AllCalls : CallAt(c).kind = "process"}
RoundTrips ==
  {c \in ProcessCalls : /\ CallAt(c).invoked > 0
                        /\ CallAt(c).pc = "done"
                        /\ CallAt(c).reported = NoError
                        /\ CallAt(c).saved}

\* every process() call started so far has ended
ProcessCallsEnded == \A c \in ProcessCalls : Ended(c)

\* C11 as stated: a queued Push record whose job is processed with a succeeding
\* transport and a working store ends with sentAt set and failedAt absent in the
\* store.
C11_RoundTripLeavesNoFailure ==
  /\ [](\A c \in RoundTrips :
          /\ store[docs[c[1]]._id].sentAt # NoDate
          /\ store[docs[c[1]]._id].failedAt = NoDate)
  /\ []<>ProcessCallsEnded

\* the record of a round trip has sentAt set in the store from then on, and the
\* round trip did not touch failedAt
RoundTripRecorded ==
  \A c \in RoundTrips :
    /\ docs[c[1]]._id \in DOMAIN store
    /\ store[docs[c[1]]._id].sentAt # NoDate
    /\ CallAt(c).stored.sentAt = Now(c[1], c[2])
    /\ CallAt(c).after.failedAt = CallAt(c).before.failedAt
    /\ jobs[CallAt(c).job].data._id = docs[c[1]]._id

\* C11 amended: a queued Push record whose job is processed by process(job) with
\* a succeeding transport and fair store and queue callbacks eventually has
\* sentAt set in the store; failedAt is left as it was, absent only when the
\* record had not failed before.
C11_RoundTripSetsSentAt ==
  /\ []RoundTripRecorded
  /\ []<>ProcessCallsEnded

C11_Witness ==
  \E c \in RoundTrips :
    /\ CallAt(c).before.failedAt = NoDate
    /\ CallAt(c).before.sentAt = NoDate
    /\ store[docs[c[1]]._id].sentAt # NoDate
    /\ jobs[CallAt(c).job].status = "complete"

\* send() begins on document d, whose transport is no module
SendUnresolvable(d) ==
  /\ Len(calls'[d]) = Len(calls[d]) + 1
  /\ calls'[d][Len(calls'[d])].kind = "send"
  /\ ~calls'[d][Len(calls'[d])].fake
  /\ docs[d].transport \notin Transports

\* C19: when the transport of the record cannot be resolved, send() hands the
\* resolution error to the callback and leaves the record as it was: the
\* document in memory, the store, the jobs and the events do not change, and no
\* transport is invoked.
C19_UnresolvableChangesNothing ==
  [][\A d \in Docs :
       SendUnresolvable(d) =>
         /\ docs' = docs /\ store' = store /\ events' = events /\ jobs' = jobs
         /\ calls'[d][Len(calls'[d])].pc = "done"
         /\ calls'[d][Len(calls'[d])].cbCalled
         /\ calls'[d][Len(calls'[d])].cbError.code = "MODULE_NOT_FOUND"
         /\ calls'[d][Len(calls'[d])].invoked = 0
         /\ ~calls'[d][Len(calls'[d])].saved]_vars

C19_Witness ==
  \E c \in AllCalls :
    /\ CallAt(c).kind = "send" /\ ~CallAt(c).fake /\ Ended(c)
    /\ CallAt(c).before.transport \notin Transports
    /\ CallAt(c).cbError.code = "MODULE_NOT_FOUND"
    /\ CallAt(c).after.sentAt = NoDate /\ CallAt(c).after.failedAt = NoDate

\* C20: a send(), real or fake, of a record that fails validation invokes no
\* transport and changes neither sentAt, failedAt, result nor state of the
\* record, in memory or in the store.
C20_InvalidRecordUntouched ==
  \A c \in AllCalls :
    (CallAt(c).kind = "send" /\ CallAt(c).saveError.code = "ValidationError") =>
      /\ CallAt(c).invoked = 0
      /\ CallAt(c).after.sentAt = CallAt(c).before.sentAt
      /\ CallAt(c).after.failedAt = CallAt(c).before.failedAt
      /\ CallAt(c).after.result = CallAt(c).before.result
      /\ CallAt(c).after.state = CallAt(c).before.state
      /\ CallAt(c).stored = NoRecord

\* the lookups of unsent() and sent() that have answered
Lookups ==
  {b \in Batches : /\ batches[b].kind \in {"unsent", "sent"}
                   /\ batches[b].cbCalled
                   /\ batches[b].cbError = NoError}

\* the records of st that satisfy the criteria and the predicate of the static
Expected(kind, criteria, st) ==
  {id \in DOMAIN st :
     /\ Matches(st[id], criteria)
     /\ kind = "unsent" => st[id].sentAt = NoDate
     /\ kind = "sent" => st[id].sentAt # NoDate}

\* C13: for every criteria, also criteria that constrain sentAt, unsent returns
\* exactly the records that match the criteria and have no sentAt, and sent
\* exactly those that match and have sentAt: the criteria never replace the
\* predicate.
C13_CriteriaAddToPredicate ==
  \A b \in Lookups :
    Range(batches[b].found) =
      Expected(batches[b].kind, batches[b].criteria, batches[b].seen)

\* the sends resend() has started, and the queue() calls of requeue()
ResendSends ==
  {c \in AllCalls : /\ CallAt(c).batch # 0
                    /\ batches[CallAt(c).batch].kind = "resend"}
RequeueCalls ==
  {c \in AllCalls : /\ CallAt(c).batch # 0
                    /\ batches[CallAt(c).batch].kind = "requeue"}

\* every record resend has handed to a transport or saved was unsent when the
\* lookup returned it
ResendPassesOnlyUnsent ==
  \A c \in ResendSends :
    (CallAt(c).invoked > 0 \/ CallAt(c).saved) => CallAt(c).before.sentAt = NoDate

\* the save of a send of resend changes only a record that has no sentAt in the
\* store
ResendSavesOnlyUnsent ==
  \A d \in Docs :
    (/\ At(d, "save")
     /\ <<d, Len(calls[d])>> \in ResendSends
     /\ calls'[d][Len(calls[d])].pc = "done"
     /\ store'[docs[d]._id] # store[docs[d]._id])
      => store[docs[d]._id].sentAt = NoDate

\* C12: resend(criteria) sends only records whose sentAt is absent: no record
\* that has sentAt in the store is handed to a transport or modified by resend,
\* also when workers run between the lookup of resend and its sends.
C12_ResendOnlyUnsent ==
  []ResendPassesOnlyUnsent /\ [][ResendSavesOnlyUnsent]_vars

\* the calls of resend()
Resends == {b \in Batches : batches[b].kind = "resend"}

\* C14: resend calls its callback only after the send of every matched record
\* has completed, also when one of those sends ends with an error.
C14_CallbackAfterAllSends ==
  \A b \in Resends : batches[b].cbCalled => batches[b].unfinished = {}

\* the statics and the workers, where the callbacks of the transport and of the
\* store of a send complete
FairBatchSpec ==
  /\ BatchSpec
  /\ WF_vars(\E d \in Docs, out \in AllOutcomes : TransportCb(d, out))
  /\ WF_vars(\E d \in Docs, io \in StoreAnswers : SendSaveCb(d, io))

\* the calls of resend() whose lookup has answered with records
ResendsAnswered ==
  {b \in Resends : batches[b].pc = "done" /\ batches[b].error = NoError}

\* one send has been started for each record the lookup returned, whatever has
\* become of the others
ResendStartsAll ==
  \A b \in ResendsAnswered :
    /\ Len(batches[b].children) = Len(batches[b].found)
    /\ \A i \in 1..Len(batches[b].found) :
         LET d == batches[b].children[i]
         IN  /\ docs[d]._id = batches[b].found[i]
             /\ <<d, 1>> \in ResendSends
             /\ calls[d][1].batch = b
             /\ calls[d][1].required

\* a send of resend whose transport succeeded and whose save succeeded has left
\* its sentAt in the store
ResendSendsPersisted ==
  \A c \in ResendSends :
    (Ended(c) /\ CallAt(c).saved /\ CallAt(c).reported = NoError) =>
      /\ CallAt(c).after.sentAt = Now(c[1], c[2])
      /\ CallAt(c).stored.sentAt = Now(c[1], c[2])

ResendSendsEnded == \A c \in ResendSends : Ended(c)

\* C15: in resend, the failure of the send of one matched record (resolution,
\* transport or persistence error) does not keep any other matched record from
\* being sent and persisted: the send of every matched record is started and
\* runs to completion.
C15_EverySendRunsToCompletion ==
  /\ []ResendStartsAll
  /\ []ResendSendsPersisted
  /\ []<>ResendSendsEnded

\* a resend where the send of one record has failed and that of another has
\* ended with the record sent and saved
C15_Witness ==
  \E b \in ResendsAnswered :
    \E i, j \in 1..Len(batches[b].children) :
      LET failed == calls[batches[b].children[i]][1]
          other == calls[batches[b].children[j]][1]
      IN  /\ i # j
          /\ failed.pc = "done"
          /\ failed.cbError # NoError
          /\ other.pc = "done"
          /\ other.saved
          /\ other.stored.sentAt # NoDate

\* the calls of requeue(), those whose lookup failed, and the events of a call
Requeues == {b \in Batches : batches[b].kind = "requeue"}
RequeuesFailed ==
  {b \in Requeues : batches[b].pc = "done" /\ batches[b].error # NoError}
RequeueEventsOf(b) ==
  {i \in 1..Len(events) : events[i].doc = 0 /\ events[i].k = b}

\* C16: when the lookup of unsent records fails, requeue emits
\* message:requeue:error with the error, emits no message:requeue:success, calls
\* queue() on no record and creates no job.
C16_LookupFailureEmitsError ==
  \A b \in RequeuesFailed :
    /\ \E i \in RequeueEventsOf(b) :
         /\ events[i].name = "message:requeue:error"
         /\ events[i].error = batches[b].error
         /\ RequeueEventsOf(b) = {i}
    /\ batches[b].children = <<>>
    /\ \A c \in AllCalls : CallAt(c).batch # b
    /\ \A j \in 1..Len(jobs) :
         jobs[j].doc # 0 => calls[jobs[j].doc][jobs[j].k].batch # b

\* a requeue whose lookup has failed
C16_Witness ==
  \E b \in RequeuesFailed : batches[b].error.code = "MongoError"

\* the calls of requeue() whose lookup has answered with records
RequeuesAnswered ==
  {b \in Requeues : batches[b].pc = "done" /\ batches[b].error = NoError}

\* the ids of the records of a list
IdsOf(recs) == {recs[i]._id : i \in 1..Len(recs)}

\* requeue b has emitted message:requeue:success once, with the records that
\* match its criteria and are unsent, before every queue event of its records
RequeueSuccessFirst(b) ==
  \E i \in RequeueEventsOf(b) :
    /\ RequeueEventsOf(b) = {i}
    /\ events[i].name = "message:requeue:success"
    /\ IdsOf(events[i].payload) =
         Expected("unsent", batches[b].criteria, batches[b].seen)
    /\ \A k \in 1..Len(events) :
         events[k].doc \in Range(batches[b].children) => i < k

\* requeue b has called queue() once on each of those records, and on no other
RequeueQueuesEach(b) ==
  /\ {docs[d]._id : d \in Range(batches[b].children)} =
       Expected("unsent", batches[b].criteria, batches[b].seen)
  /\ Len(batches[b].children) = Len(batches[b].found)
  /\ \A d \in Range(batches[b].children) :
       /\ Len(calls[d]) = 1
       /\ calls[d][1].kind = "queue"
       /\ calls[d][1].batch = b
  /\ \A c \in AllCalls :
       CallAt(c).batch = b => c[1] \in Range(batches[b].children)

\* C17: when the lookup succeeds, requeue emits message:requeue:success with the
\* matched unsent set before any queue event of that requeue, then calls queue()
\* exactly once for each matched record and for no other record; the failure of
\* one queue() shows only as a message:queue:error event and stops neither the
\* queueing of the other records nor takes the success event back.
C17_RequeueQueuesMatchedUnsent ==
  \A b \in RequeuesAnswered : RequeueSuccessFirst(b) /\ RequeueQueuesEach(b)

\* the lookup of process() on document d answers that no record has the id of
\* the job
ProcessFindsNothing(d) ==
  /\ At(d, "find")
  /\ jobs[Last(d).job].data._id \notin DOMAIN store
  /\ calls'[d][Len(calls[d])].pc = "done"
  /\ faults' = faults

\* C18: process(job) for a job whose payload id matches no record in the store
\* completes the job without an error, invokes no transport, changes no record
\* and no other job, and emits no event.
C18_MissingRecordIsNoOp ==
  [][\A d \in Docs :
       ProcessFindsNothing(d) =>
         /\ store' = store /\ events' = events /\ docs' = docs
         /\ jobs' = [jobs EXCEPT ![Last(d).job].status = "complete"]
         /\ calls' = WithLast(d, [Last(d) EXCEPT !.pc = "done", !.cbCalled = TRUE])
         /\ calls'[d][Len(calls[d])].cbError = NoError
         /\ calls'[d][Len(calls[d])].invoked = 0
         /\ ~calls'[d][Len(calls[d])].required]_vars

\* a job of a removed record that a worker has processed to completion
C18_Witness ==
  \E c \in ProcessCalls :
    /\ Ended(c)
    /\ jobs[CallAt(c).job].data._id = RemovedId
    /\ RemovedId \notin DOMAIN store
    /\ CallAt(c).cbCalled
    /\ CallAt(c).cbError = NoError
    /\ CallAt(c).invoked = 0
    /\ jobs[CallAt(c).job].status = "complete"
    /\ jobs[CallAt(c).job].made = 0

\* a record that has every required path
Complete(rec) ==
  /\ rec.from # ""
  /\ rec.to.kind = "arr" /\ Len(rec.to.v) > 0
  /\ rec.body # ""
  /\ rec.queueName # ""
  /\ rec.hash # NoHash

\* the calls of save() made by callers
SaveCalls == {c \in AllCalls : CallAt(c).kind = "save"}

RefusedDuplicates ==
  {c \in AllCalls : Ended(c) /\ CallAt(c).saveError.code = "E11000"}

\* C22: in every reachable state no two records in the store have the same
\* hash: persisting a second record whose hash equals that of a stored record
\* fails with a duplicate-key error, so queue() of such a record emits
\* message:queue:error and creates no job, and send() of it hands the error to
\* its callback without persisting.
C22_HashIsUnique ==
  /\ \A i, j \in DOMAIN store : i # j => store[i].hash # store[j].hash
  /\ \A c \in RefusedDuplicates :
       /\ ~CallAt(c).saved
       /\ CallAt(c).stored = NoRecord
       /\ docs[c[1]]._id \notin DOMAIN store
       /\ \E id \in DOMAIN store : store[id].hash = CallAt(c).after.hash
       /\ CallAt(c).kind = "queue" =>
            /\ JobsOf(c) = {}
            /\ \E i \in EventsOf(c) :
                 /\ events[i].name = "message:queue:error"
                 /\ events[i].error.code = "E11000"
                 /\ QueueEventsOf(c) = {i}
       /\ CallAt(c).kind = "send" =>
            /\ CallAt(c).cbCalled
            /\ CallAt(c).cbError.code = "E11000"

\* a second record with the hash of a stored one has been queued and refused
C22_Witness ==
  \E c \in RefusedDuplicates :
    /\ CallAt(c).kind = "queue"
    /\ \E id \in DOMAIN store :
         id # docs[c[1]]._id /\ store[id].hash = docs[c[1]].hash

\* the documents that have gone through the pre('validate') hook
Normalized == {d \in Docs : calls[d] # <<>>}

\* _.pick(record, HASH_FIELDS) of a normalized record
Projection(doc) == [f \in Range(HASH_FIELDS) |-> doc[f]]

\* C23: the hash computed by normalization depends only on the projection
\* {type, direction, from, to, transport, queueName, body, priority} taken after
\* to has been normalised and queueName defaulted: two records that agree on
\* these eight fields get the same hash whatever their other fields, and two
\* records that differ in one of the eight get different hashes.
C23_HashDependsOnProjection ==
  \A d, e \in Normalized :
    (docs[d].hash = docs[e].hash) <=> (Projection(docs[d]) = Projection(docs[e]))

\* two normalized records that agree on the eight fields and differ elsewhere,
\* or were given to in different forms, with one hash
C23_Witness ==
  \E d, e \in Normalized :
    /\ d # e
    /\ docs[d].hash = docs[e].hash
    /\ docs[d].hash # NoHash
    /\ \/ docs[d].subject # docs[e].subject
       \/ calls[d][1].before.to # calls[e][1].before.to
       \/ calls[d][1].before.queueName # calls[e][1].before.queueName

\* the record a document was when its first save began, and what the hook made
\* of it
Given(d) == calls[d][1].before
Hooked(d) == calls[d][1].after

\* a message made from {from, to, body} alone, to a single string and body text
GivenPlain(d) ==
  Given(d) =
    toObject(Construct([NoDetails EXCEPT !.from = "a@x.com",
                                         !.to = Str("b@x.com"),
                                         !.body = "hi"], docs[d]._id))

\* C24: normalization of a record given only from, to (a single string) and a
\* plain-text body yields to as a one-element sequence, type EMAIL, direction
\* Outbound, priority normal, queueName equal to the lower-cased type, mime
\* text/plain and a non-empty hash; for every type, queueName is derived as the
\* lower-cased type only when it was not supplied, and a supplied queueName is
\* kept.
C24_NormalizationDefaults ==
  \A d \in Normalized :
    /\ GivenPlain(d) =>
         /\ Hooked(d).to = Arr(<<"b@x.com">>)
         /\ Hooked(d).type = TYPE_EMAIL
         /\ Hooked(d).direction = DIRECTION_OUTBOUND
         /\ Hooked(d).priority = PRIORITY_NORMAL
         /\ Hooked(d).queueName = "email"
         /\ Hooked(d).mime = MIME_TEXT
         /\ Hooked(d).hash # NoHash
    /\ Given(d).queueName = "" =>
         Hooked(d).queueName =
           (CASE Hooked(d).type = TYPE_EMAIL -> "email"
              [] Hooked(d).type = TYPE_SMS -> "sms"
              [] Hooked(d).type = TYPE_PUSH -> "push")
    /\ Given(d).queueName # "" => Hooked(d).queueName = Given(d).queueName

\* a message given only from, to and body has been normalized, and so has one
\* that came with a queue name
C24_Witness ==
  \E d, e \in Normalized :
    /\ GivenPlain(d)
    /\ Hooked(d).queueName = "email"
    /\ Given(e).queueName # ""
    /\ Hooked(e).queueName = Given(e).queueName

\* the caller gave no mime for document d: the first message is made from
\* Inputs, which leave mime out or give text/html, so it starts with text/plain
\* only through the default of the schema
MimeLeftOut(d) == d = 1 /\ Given(d).mime = MIME_TEXT

\* C25: for a record created without an explicit mime whose body contains HTML
\* markup, normalization sets mime to text/html; it sets text/plain only when
\* the body contains no HTML markup.
C25_HtmlBodyGetsHtmlMime ==
  \A d \in Normalized :
    MimeLeftOut(d) =>
      Hooked(d).mime = IF IsHtml(Hooked(d).body) THEN MIME_HTML ELSE MIME_TEXT

\* C26: a mime that is already set on the record (text/html supplied by the
\* caller) is left unchanged by normalization and by every save of the record.
C26_SetMimeIsKept ==
  \A d \in Normalized :
    \A i \in 1..Len(calls[d]) :
      calls[d][i].before.mime = MIME_HTML => calls[d][i].after.mime = MIME_HTML

\* the calls that ended after a successful send: the transport reported no
\* error, or the send was fake
SucceededSends ==
  {c \in AllCalls :
     /\ CallAt(c).kind \in {"send", "process"}
     /\ CallAt(c).pc = "done"
     /\ CallAt(c).fake \/ (CallAt(c).invoked > 0 /\ CallAt(c).reported = NoError)}

\* C27: sentAt is set only by the first successful send of a record: a later
\* successful send (a second send(), a second job, a fake send) of a record
\* that has sentAt leaves sentAt at its first value.
C27_SentAtSetOnce ==
  \A c \in SucceededSends :
    CallAt(c).before.sentAt # NoDate =>
      CallAt(c).after.sentAt = CallAt(c).before.sentAt

\* the calls that ended after the transport reported an error
FailedSends ==
  {c \in AllCalls :
     /\ CallAt(c).kind \in {"send", "process"}
     /\ CallAt(c).pc = "done"
     /\ CallAt(c).invoked > 0 /\ CallAt(c).reported # NoError}

\* C28: a record that has failed any number of times is still sendable: each
\* failure overwrites failedAt and result, and a later send with a succeeding
\* transport sets sentAt and the success result and leaves the earlier failedAt
\* unchanged.
C28_FailedRecordStillSendable ==
  /\ \A c \in FailedSends :
       CallAt(c).before.failedAt # NoDate =>
         /\ CallAt(c).after.failedAt = Now(c[1], c[2])
         /\ CallAt(c).after.result = CallAt(c).reported
  /\ \A c \in SucceededSends :
       (~CallAt(c).fake /\ CallAt(c).before.failedAt # NoDate) =>
         /\ CallAt(c).after.sentAt = Now(c[1], c[2])
         /\ CallAt(c).after.result = CallAt(c).got
         /\ CallAt(c).after.failedAt = CallAt(c).before.failedAt
         /\ CallAt(c).saved => CallAt(c).stored.sentAt = Now(c[1], c[2])

C28_Witness ==
  \E c \in SucceededSends :
    /\ ~CallAt(c).fake /\ CallAt(c).saved
    /\ CallAt(c).before.sentAt = NoDate
    /\ \E b \in FailedSends :
         /\ b[1] = c[1] /\ b[2] < c[2]
         /\ CallAt(b).before.failedAt # NoDate
         /\ CallAt(c).before.failedAt = Now(b[1], b[2])
         /\ CallAt(c).stored.failedAt = Now(b[1], b[2])

\* the sends whose transport succeeded and whose save then failed
UnsavedSuccesses ==
  {c \in SucceededSends : ~CallAt(c).fake /\ CallAt(c).saveError # NoError}

\* what a send whose save failed after the transport succeeded leaves behind,
\* the stored record apart: the error of save for the caller, no
\* message:sent:success event, and the outcome of the success branch on the
\* document in memory
UnsavedSuccessReported ==
  \A c \in UnsavedSuccesses :
    /\ CallAt(c).cbCalled /\ CallAt(c).cbError = CallAt(c).saveError
    /\ ~\E i \in 1..Len(events) :
          /\ events[i].name = "message:sent:success"
          /\ events[i].doc = c[1] /\ events[i].k = c[2]
    /\ CallAt(c).after.sentAt = Now(c[1], c[2])
    /\ CallAt(c).after.state = StateOf(CallAt(c).got)
    /\ CallAt(c).after.result = CallAt(c).got

\* C29 as stated: when persisting fails after the transport succeeded, send()
\* reports the persistence error, emits no message:sent:success, leaves sentAt,
\* state and result of the success branch on the record in memory, and leaves
\* the stored record (if any) without sentAt.
C29_UnsavedSuccessLeavesNoSentAt ==
  /\ UnsavedSuccessReported
  /\ \A c \in UnsavedSuccesses : CallAt(c).stored.sentAt = NoDate

\* the save of a send on document d fails after its transport succeeded
SaveFailsAfterSuccess(d) ==
  /\ At(d, "save") /\ ~Last(d).fake /\ Last(d).reported = NoError
  /\ calls'[d][Len(calls[d])].pc = "done"
  /\ calls'[d][Len(calls[d])].saveError # NoError

\* C29 amended: when persisting fails after the transport succeeded, send()
\* reports the persistence error, emits no message:sent:success, leaves sentAt,
\* state and result of the success branch on the record in memory, and leaves
\* the store as it was: the stored record (if any) keeps the sentAt it had,
\* none unless an earlier send was stored.
C29_UnsavedSuccessLeavesStore ==
  /\ []UnsavedSuccessReported
  /\ [][\A d \in Docs : SaveFailsAfterSuccess(d) => store' = store]_vars
  /\ [](\A c \in UnsavedSuccesses :
          CallAt(c).stored.sentAt # Now(c[1], c[2]))

C29_Witness ==
  \E c \in UnsavedSuccesses :
    /\ CallAt(c).sink
    /\ CallAt(c).stored._id = docs[c[1]]._id
    /\ CallAt(c).stored.sentAt = NoDate
    /\ docs[c[1]].sentAt = Now(c[1], c[2])

\* the sends whose transport failed and whose save then succeeded
SavedFailures == {c \in FailedSends : CallAt(c).saved}

\* the errors the transports report, as the failure branch records them
RecordedErrors ==
  {NormalizeError(out.error) : out \in {o \in AllOutcomes : o.error # NoError}}

OutcomeOf(rec) ==
  [sentAt |-> rec.sentAt, failedAt |-> rec.failedAt, state |-> rec.state,
   result |-> rec.result]

\* the sends that went through the transport and whose save succeeded
SavedSends ==
  {c \in AllCalls : /\ CallAt(c).kind \in {"send", "process"}
                    /\ ~CallAt(c).fake /\ CallAt(c).invoked > 0
                    /\ CallAt(c).pc = "done" /\ CallAt(c).saved}

\* the record of send e carries a timestamp of send c
Stamped(rec, c) ==
  rec.sentAt = Now(c[1], c[2]) \/ rec.failedAt = Now(c[1], c[2])

\* sends c and e of one record ran concurrently: neither began on a record
\* that carried the outcome of the other
Concurrent(c, e) ==
  /\ c # e
  /\ CallAt(c).after._id = CallAt(e).after._id
  /\ ~Stamped(CallAt(c).before, e) /\ ~Stamped(CallAt(e).before, c)

\* of two saved sends, c persisted after e: the record as e stored it carries
\* nothing of c
PersistedAfter(c, e) == ~Stamped(CallAt(e).stored, c)

\* C31: two concurrent sends on one record both complete, and the stored record
\* then holds the outcome fields (sentAt, failedAt, state, result) of the send
\* that persisted last, never a mixture of the two attempts.
C31_LastWriteWins ==
  \A c, e \in SavedSends :
    (Concurrent(c, e) /\ PersistedAfter(c, e)) =>
      OutcomeOf(CallAt(c).stored) = OutcomeOf(CallAt(c).after)

\* C32: event emission never fails the operation: with no listener, or with no
\* event sink on the model or the transport (the factory initialised with
\* fake: true), queue(), requeue() and send() run to completion and raise no
\* error.
C32_EmissionNeverFails ==
  /\ \A c \in AllCalls : CallAt(c).thrown = NoError
  /\ \A b \in Batches : batches[b].thrown = NoError

\* the resends whose lookup answered that no record is unsent
EmptyResends ==
  {b \in Resends : /\ batches[b].pc = "done" /\ batches[b].error = NoError
                   /\ batches[b].found = <<>>}

\* C33: resend on an empty set of unsent records invokes its callback with an
\* empty result and no error, and invokes no transport.
C33_EmptyResendIsNoError ==
  \A b \in EmptyResends :
    /\ batches[b].cbCalled /\ batches[b].cbError = NoError
    /\ batches[b].children = <<>> /\ batches[b].unfinished = {}
    /\ \A c \in AllCalls : CallAt(c).batch # b

C33_Witness ==
  \E b \in EmptyResends :
    /\ batches[b].cbCalled
    /\ batches[b].seen # <<>>
    /\ batches[b].criteria.type = TYPE_SMS
    /\ \A id \in DOMAIN batches[b].seen : ~Matches(batches[b].seen[id], batches[b].query)

\* what a call of the factory returns now: the model and its statics
ReturnedNow ==
  [model |-> model.compiled, _uuid |-> model._uuid, _queue |-> model._queue]

\* C34: the factory is a singleton: any number of calls, with any options,
\* return the same Message model, and the model's _uuid and queue are assigned
\* on the first call and never replaced by a later call.
C34_FactoryIsSingleton ==
  /\ model.registered <=> model.returned # <<>>
  /\ \A i \in 1..Len(model.returned) :
       /\ model.returned[i] = ReturnedNow
       /\ model.returned[i].model = 1
       /\ model.returned[i]._uuid \in Uuids
       /\ model.returned[i]._queue \in {0, 1}

C34_Witness ==
  /\ Len(model.returned) >= 3
  /\ model.options.fake = "false"
  /\ model._queue = 0
  /\ model._uuid = 202

\* the send events emitted by call c
SendEventsOf(c) ==
  {i \in 1..Len(events) :
     /\ events[i].doc = c[1] /\ events[i].k = c[2]
     /\ events[i].name \in {"message:sent:success", "message:sent:error"}}

\* C35: message:sent:success is emitted only after the record carrying sentAt
\* has been persisted and only when the transport has an event sink;
\* message:sent:error is emitted on a transport failure with the normalized
\* error, before the record is persisted; a send() call emits at most one send
\* event.
C35_OneSendEventInOrder ==
  \A c \in AllCalls :
    /\ Cardinality(SendEventsOf(c)) <= 1
    /\ \A i \in SendEventsOf(c) :
         /\ CallAt(c).sink
         /\ events[i].name = "message:sent:success" =>
              /\ CallAt(c).reported = NoError
              /\ CallAt(c).saved
              /\ CallAt(c).stored.sentAt = Now(c[1], c[2])
              /\ events[i].payload.sentAt = Now(c[1], c[2])
         /\ events[i].name = "message:sent:error" =>
              /\ CallAt(c).reported # NoError
              /\ events[i].error = CallAt(c).reported

\* C36: sentAt is stable in the store: once a stored record has sentAt, no step
\* of send, queue, resend, requeue or process (a later failing send and a
\* concurrent send that loaded the record before it was sent included) makes
\* it absent again.
C36_StoredSentAtStays ==
  [][\A id \in DOMAIN store :
       store[id].sentAt # NoDate =>
         /\ id \in DOMAIN store'
         /\ store'[id].sentAt # NoDate]_vars

C36_Witness ==
  \E c \in SavedFailures :
    /\ CallAt(c).before.sentAt = NoDate
    /\ CallAt(c).after.sentAt = NoDate
    /\ CallAt(c).stored.failedAt = Now(c[1], c[2])
    /\ CallAt(c).stored.sentAt # NoDate
    /\ store[CallAt(c).stored._id].sentAt # NoDate

\* C37: for records created with the default state and changed only by the core
\* operations, every stored record whose state is Delivered has sentAt present.
C37_DeliveredHasSentAt ==
  \A id \in DOMAIN store :
    store[id].state = STATE_DELIVERED => store[id].sentAt # NoDate

C37_Witness ==
  \E c \in SavedSends :
    /\ CallAt(c).before.state = STATE_UNKNOWN
    /\ CallAt(c).before.sentAt = NoDate
    /\ CallAt(c).reported = NoError
    /\ store[CallAt(c).stored._id].state = STATE_DELIVERED
    /\ store[CallAt(c).stored._id].sentAt = Now(c[1], c[2])
    /\ store[CallAt(c).stored._id].failedAt # NoDate

\* the record call c is about: that of its job, or that of its document
RecordOf(c) ==
  IF CallAt(c).kind = "process"
    THEN jobs[CallAt(c).job].data._id ELSE docs[c[1]]._id

\* the lookup of process() call c has answered, and not with an error
LookupDone(c) ==
  /\ CallAt(c).pc # "find"
  /\ ~(docs[c[1]].origin = "pending" /\ CallAt(c).cbError # NoError)

\* call c is due to invoke the transport: a real send() on a document, or a
\* process() whose lookup was answered and whose record exists, with a
\* transport that is a module
ReachesTransport(c) ==
  \/ /\ CallAt(c).kind = "send" /\ ~CallAt(c).fake
     /\ Resolvable(docs[c[1]].transport)
  \/ /\ CallAt(c).kind = "process" /\ LookupDone(c)
     /\ RecordOf(c) \in DOMAIN store
     /\ Resolvable(store[RecordOf(c)].transport)

\* the transport invocations for the record id
Invocations(id) ==
  {c \in AllCalls : RecordOf(c) = id /\ CallAt(c).invoked > 0}

\* C38: process(job) does not look at sentAt: every processed job whose record
\* exists and whose transport resolves invokes the transport exactly once, also
\* when the record was already sent, so a record has as many transport
\* invocations as it has jobs processed and direct sends.
C38_EveryJobInvokesTransport ==
  /\ \A c \in AllCalls :
       CallAt(c).invoked = IF ReachesTransport(c) THEN 1 ELSE 0
  /\ \A id \in DOMAIN store :
       Cardinality(Invocations(id)) =
         Cardinality({c \in AllCalls : RecordOf(c) = id /\ ReachesTransport(c)})

C38_Witness ==
  \E c \in ProcessCalls :
    /\ Ended(c)
    /\ CallAt(c).before.sentAt # NoDate
    /\ CallAt(c).invoked = 1
    /\ CallAt(c).reported = NoError /\ CallAt(c).saved
    /\ Cardinality(Invocations(RecordOf(c))) >= 2

\* the calls whose document has been noted after their save, or at their end
NotedCalls ==
  {c \in AllCalls : CallAt(c).pc \in {"jobsave", "done"} /\ CallAt(c).after._id # 0}

\* C39: queue() on a Push record leaves state, sentAt, failedAt and result
\* unchanged; the only values written to state are Unknown, by queue() on a
\* Pull record, and the state of the transport's result or Delivered, by a
\* successful send; a fake send and a failed send leave state unchanged.
C39_StateWrittenOnlyBySuccess ==
  \A c \in NotedCalls :
    LET call == CallAt(c)
    IN  /\ (call.kind = "queue" /\ call.before.mode = SEND_MODE_PUSH) =>
             OutcomeOf(call.after) = OutcomeOf(call.before)
        /\ (call.kind = "queue" /\ call.before.mode = SEND_MODE_PULL) =>
             /\ call.after.state = STATE_UNKNOWN
             /\ call.after.sentAt = call.before.sentAt
             /\ call.after.failedAt = call.before.failedAt
             /\ call.after.result = call.before.result
        /\ c \in SucceededSends /\ ~call.fake =>
             call.after.state = StateOf(call.got)
        /\ (call.kind \in {"send", "process"} /\ c \notin SucceededSends) =>
             call.after.state = call.before.state
        /\ call.fake => call.after.state = call.before.state

C39_Witness ==
  \E c \in NotedCalls :
    /\ CallAt(c).kind = "queue"
    /\ CallAt(c).before.mode = SEND_MODE_PUSH
    /\ CallAt(c).before.sentAt # NoDate
    /\ CallAt(c).before.state = STATE_DELIVERED
    /\ CallAt(c).saved /\ CallAt(c).job # 0
    /\ CallAt(c).stored.state = STATE_DELIVERED

=============================================================================
